---- MODULE Spec2Model ----
(***************************************************************************)
(* split-it: the penny-perfect split engine (frontend/src/lib/pennySplit)  *)
(* and the allocation ledger kept by the database triggers of              *)
(* backend/db/migrations/002_participant_settlements.sql.                  *)
(***************************************************************************)
EXTENDS Integers, Sequences, FiniteSets, Bags, TLC

(***************************************************************************)
(* Bounds of the split engine's inputs.                                    *)
(***************************************************************************)
\* total number of participant ids over all assignment arrays of one call
MaxAssigned == 3
\* the ids of the items of a receipt, in receipt order (a call gets a prefix)
ItemIds == <<"i1", "i2">>
\* item prices in cents
Prices == {0, 1, 2, 100}
\* an id that names no participant
UnknownId == "zz"

(***************************************************************************)
(* Generic helpers.                                                        *)
(***************************************************************************)
Range(s) == {s[k] : k \in DOMAIN s}

RECURSIVE SumOver(_, _)
\* sum of f[x] over the finite set S
SumOver(f, S) ==
    IF S = {} THEN 0
    ELSE LET x == CHOOSE y \in S : TRUE IN f[x] + SumOver(f, S \ {x})

RECURSIVE SeqSum(_)
SeqSum(s) == IF s = <<>> THEN 0 ELSE Head(s) + SeqSum(Tail(s))

\* all sequences over S of length at most n
SeqsUpTo(S, n) == UNION {[1..k -> S] : k \in 0..n}

(***************************************************************************)
(* Split engine: computePennyPerfectSplit with per-item details.           *)
(***************************************************************************)
VARIABLES
    items,                 \* args.items: sequence of [id, price_cents]
    assignments,           \* args.assignments: item id -> array of participant ids
    pc,                    \* position in the function: "loop", "rem", "done"
    itemPos,               \* index of the item the for-of loop is at
    totals,                \* Map participant id -> cents
    details,               \* Map participant id -> array of [item_id, amount_cents]
    unassigned_item_ids,
    assigned_total_cents,
    selectedValid,         \* of the item being processed
    remI,                  \* the remainder loop's i
    result                 \* the returned SplitResult (<<>> until returned)

splitVars == <<items, assignments, pc, itemPos, totals, details,
               unassigned_item_ids, assigned_total_cents, selectedValid, remI, result>>

\* args.participants (ids; names are display only)
participants == <<"p1", "p2", "p3">>

participantIds == Range(participants)

\* participants.forEach((p, i) => participantIndex.set(p.id, i))
participantIndex ==
    [pid \in participantIds |-> (CHOOSE k \in DOMAIN participants : participants[k] = pid) - 1]

\* assignments[item.id] ?? []
Selected(asg, itemId) == IF itemId \in DOMAIN asg THEN asg[itemId] ELSE <<>>

RECURSIVE InsertByIndex(_, _)
\* stable insertion of pid into a sequence sorted by participantIndex
InsertByIndex(sorted, pid) ==
    IF sorted = <<>> THEN <<pid>>
    ELSE IF participantIndex[pid] < participantIndex[Head(sorted)]
         THEN <<pid>> \o sorted
         ELSE <<Head(sorted)>> \o InsertByIndex(Tail(sorted), pid)

RECURSIVE SortByIndex(_)
\* Array.prototype.sort with the comparator participantIndex(a) - participantIndex(b)
SortByIndex(s) ==
    IF s = <<>> THEN <<>>
    ELSE InsertByIndex(SortByIndex(SubSeq(s, 1, Len(s) - 1)), s[Len(s)])

\* no filter: an id that is not in participantIndex sorts and counts as the
\* first participant
SelectedUnknownAsFirst(selected) ==
    SortByIndex([k \in DOMAIN selected |->
                    IF selected[k] \in DOMAIN participantIndex
                    THEN selected[k] ELSE participants[1]])

\* the filter stopping at the first id that is not in participantIndex
SelectedUntilUnknown(selected) ==
    LET n == CHOOSE k \in 0..Len(selected) :
                /\ \A j \in 1..k : selected[j] \in DOMAIN participantIndex
                /\ (k = Len(selected) \/ selected[k + 1] \notin DOMAIN participantIndex)
    IN SortByIndex(SubSeq(selected, 1, n))

\* selected.filter(pid => participantIndex.has(pid)).sort(...)
SelectedValid(selected) ==
    SortByIndex(SelectSeq(selected, LAMBDA pid : pid \in DOMAIN participantIndex))

\* a rounding division in place of the truncating one
BaseRounded(cents, m) == (2 * cents + m) \div (2 * m)

\* Math.trunc(cents / m), m > 0
Base(cents, m) == cents \div m

\* cents - base * m
Rem(cents, m) == cents - Base(cents, m) * m

\* the reduce callback with the tie going to the later participant
BetterLaterWins(bestPid, candidatePid, tot) ==
    IF tot[candidatePid] < tot[bestPid] THEN candidatePid
    ELSE IF tot[candidatePid] > tot[bestPid] THEN bestPid
    ELSE IF participantIndex[candidatePid] >= participantIndex[bestPid]
         THEN candidatePid
         ELSE bestPid

\* the reduce callback with a tie decided by the loop counter of the moment,
\* a value that is not among the function's inputs
BetterByLoopCounter(bestPid, candidatePid, tot) ==
    IF tot[candidatePid] < tot[bestPid] THEN candidatePid
    ELSE IF tot[candidatePid] > tot[bestPid] THEN bestPid
    ELSE IF remI % 2 = 1 THEN candidatePid
    ELSE IF participantIndex[candidatePid] < participantIndex[bestPid]
         THEN candidatePid
         ELSE bestPid

\* the reduce callback of the stable-order policy: the earliest participant
\* in the list wins, whatever the running totals are
BetterStableOrder(bestPid, candidatePid, tot) ==
    IF participantIndex[candidatePid] < participantIndex[bestPid]
    THEN candidatePid
    ELSE bestPid

\* the reduce callback: lowest running total wins, then stable order
Better(bestPid, candidatePid, tot) ==
    IF tot[candidatePid] < tot[bestPid] THEN candidatePid
    ELSE IF tot[candidatePid] > tot[bestPid] THEN bestPid
    ELSE IF participantIndex[candidatePid] < participantIndex[bestPid]
         THEN candidatePid
         ELSE bestPid

RECURSIVE ReduceBest(_, _, _, _)
ReduceBest(sel, k, bestPid, tot) ==
    IF k > Len(sel) THEN bestPid
    ELSE ReduceBest(sel, k + 1, Better(bestPid, sel[k], tot), tot)

\* selectedValid.reduce(callback, selectedValid[0])
PickLowest(sel, tot) == ReduceBest(sel, 1, sel[1], tot)

\* the loop state carried across items
LoopState(tot, det, unas, asgTotal) ==
    [totals |-> tot, details |-> det, unassigned_item_ids |-> unas,
     assigned_total_cents |-> asgTotal]

RECURSIVE BaseAllocation(_, _, _, _, _)
\* selectedValid.forEach(pid => { totals += base; if (base > 0) details.push })
BaseAllocation(st, item, sel, k, base) ==
    IF k > Len(sel) THEN st
    ELSE LET pid == sel[k]
             tot == [st.totals EXCEPT ![pid] = @ + base]
             det == IF base > 0
                    THEN [st.details EXCEPT ![pid] =
                            Append(@, [item_id |-> item.id, amount_cents |-> base])]
                    ELSE st.details
         IN BaseAllocation([st EXCEPT !.totals = tot, !.details = det],
                           item, sel, k + 1, base)

\* index of the first entry of entries with this item_id, 0 if none (Array.find)
FindEntry(entries, itemId) ==
    IF \E k \in DOMAIN entries : entries[k].item_id = itemId
    THEN CHOOSE k \in DOMAIN entries :
            /\ entries[k].item_id = itemId
            /\ \A j \in 1..(k - 1) : entries[j].item_id # itemId
    ELSE 0

\* the remainder iteration without the push of a new detail entry
RemainderCentNoPush(st, item, sel) ==
    LET selectedPid == PickLowest(sel, st.totals)
        entries == st.details[selectedPid]
        e == FindEntry(entries, item.id)
        newEntries == IF e > 0
                      THEN [entries EXCEPT ![e].amount_cents = @ + 1]
                      ELSE entries
    IN [st EXCEPT !.totals[selectedPid] = @ + 1,
                  !.details[selectedPid] = newEntries]

\* the remainder iteration with existing.amount_cents = 1 in place of += 1
RemainderCentOverwrites(st, item, sel) ==
    LET selectedPid == PickLowest(sel, st.totals)
        entries == st.details[selectedPid]
        e == FindEntry(entries, item.id)
        newEntries == IF e > 0
                      THEN [entries EXCEPT ![e].amount_cents = 1]
                      ELSE Append(entries, [item_id |-> item.id, amount_cents |-> 1])
    IN [st EXCEPT !.totals[selectedPid] = @ + 1,
                  !.details[selectedPid] = newEntries]

\* one iteration of the remainder loop
RemainderCent(st, item, sel) ==
    LET selectedPid == PickLowest(sel, st.totals)
        entries == st.details[selectedPid]
        e == FindEntry(entries, item.id)
        newEntries == IF e > 0
                      THEN [entries EXCEPT ![e].amount_cents = @ + 1]
                      ELSE Append(entries, [item_id |-> item.id, amount_cents |-> 1])
    IN [st EXCEPT !.totals[selectedPid] = @ + 1,
                  !.details[selectedPid] = newEntries]

RECURSIVE RemainderLoop(_, _, _, _, _)
RemainderLoop(st, item, sel, i, rem) ==
    IF i >= rem THEN st
    ELSE RemainderLoop(RemainderCent(st, item, sel), item, sel, i + 1, rem)

\* the body of the for-of loop for one item
ProcessItem(st, item, asg) ==
    LET sel == SelectedValid(Selected(asg, item.id))
        m == Len(sel)
    IN IF m = 0
       THEN [st EXCEPT !.unassigned_item_ids = Append(@, item.id)]
       ELSE LET cents == item.price_cents
                st1 == [st EXCEPT !.assigned_total_cents = @ + cents]
                st2 == BaseAllocation(st1, item, sel, 1, Base(cents, m))
            IN RemainderLoop(st2, item, sel, 0, Rem(cents, m))

RECURSIVE ProcessItems(_, _, _, _)
ProcessItems(st, its, k, asg) ==
    IF k > Len(its) THEN st
    ELSE ProcessItems(ProcessItem(st, its[k], asg), its, k + 1, asg)

\* a receipt total that leaves out the items without a valid assignee
ReceiptTotalOfAssigned(its) ==
    SeqSum([k \in DOMAIN its |->
               IF Len(SelectedValid(Selected(assignments, its[k].id))) > 0
               THEN its[k].price_cents ELSE 0])

\* items.reduce((s, it) => s + it.price_cents, 0)
ReceiptTotal(its) == SeqSum([k \in DOMAIN its |-> its[k].price_cents])

InitialLoopState ==
    LoopState([pid \in participantIds |-> 0], [pid \in participantIds |-> <<>>], <<>>, 0)

\* the returned object
SplitResult(st, its) ==
    [per_person |-> [k \in DOMAIN participants |->
                        [participant_id |-> participants[k],
                         total_cents |-> st.totals[participants[k]],
                         items |-> st.details[participants[k]]]],
     receipt_total_cents |-> ReceiptTotal(its),
     assigned_total_cents |-> st.assigned_total_cents,
     unassigned_item_ids |-> st.unassigned_item_ids]

\* the function as a whole
computePennyPerfectSplit(its, asg) ==
    SplitResult(ProcessItems(InitialLoopState, its, 1, asg), its)

(***************************************************************************)
(* Split engine: computePennyPerfectSplit with the stable-order remainder  *)
(* policy (totals only).                                                   *)
(***************************************************************************)
\* the addend with <= in place of <: one assignee too many gets base + 1
StableAddInclusive(base, rem, idx) == base + (IF idx <= rem THEN 1 ELSE 0)

\* the whole remainder added to the first assignee
StableAddAllToFirst(base, rem, idx) == base + (IF idx = 0 THEN rem ELSE 0)

\* const add = base + (idx < rem ? 1 : 0); idx counts from 0
StableAdd(base, rem, idx) == base + (IF idx < rem THEN 1 ELSE 0)

RECURSIVE StableForEach(_, _, _, _, _)
\* selectedValid.forEach((pid, idx) => totals.set(pid, totals.get(pid) + add)),
\* k = idx + 1
StableForEach(tot, sel, k, base, rem) ==
    IF k > Len(sel) THEN tot
    ELSE StableForEach([tot EXCEPT ![sel[k]] = @ + StableAdd(base, rem, k - 1)],
                       sel, k + 1, base, rem)

\* the body of the for-of loop for one item
StableProcessItem(st, item, asg) ==
    LET sel == SelectedValid(Selected(asg, item.id))
        m == Len(sel)
    IN IF m = 0
       THEN [st EXCEPT !.unassigned_item_ids = Append(@, item.id)]
       ELSE LET cents == item.price_cents
            IN [st EXCEPT !.assigned_total_cents = @ + cents,
                          !.totals = StableForEach(@, sel, 1, Base(cents, m),
                                                   Rem(cents, m))]

RECURSIVE StableProcessItems(_, _, _, _)
StableProcessItems(st, its, k, asg) ==
    IF k > Len(its) THEN st
    ELSE StableProcessItems(StableProcessItem(st, its[k], asg), its, k + 1, asg)

\* the returned object: per_person carries no item details
StableResult(st, its) ==
    [per_person |-> [k \in DOMAIN participants |->
                        [participant_id |-> participants[k],
                         total_cents |-> st.totals[participants[k]]]],
     receipt_total_cents |-> ReceiptTotal(its),
     assigned_total_cents |-> st.assigned_total_cents,
     unassigned_item_ids |-> st.unassigned_item_ids]

\* the function as a whole
computePennyPerfectSplitStableOrder(its, asg) ==
    StableResult(StableProcessItems(InitialLoopState, its, 1, asg), its)

(***************************************************************************)
(* Split engine: computePennyPerfectSplit with the lowest-running-total    *)
(* remainder policy and no details (totals only).                          *)
(***************************************************************************)
RECURSIVE LowestTotalBase(_, _, _, _)
\* selectedValid.forEach(pid => totals.set(pid, totals.get(pid) + base))
LowestTotalBase(tot, sel, k, base) ==
    IF k > Len(sel) THEN tot
    ELSE LowestTotalBase([tot EXCEPT ![sel[k]] = @ + base], sel, k + 1, base)

RECURSIVE LowestTotalRemainder(_, _, _, _)
\* for (let i = 0; i < rem; i += 1) totals.set(selectedPid, totals.get(selectedPid) + 1)
LowestTotalRemainder(tot, sel, i, rem) ==
    IF i >= rem THEN tot
    ELSE LowestTotalRemainder([tot EXCEPT ![PickLowest(sel, tot)] = @ + 1],
                              sel, i + 1, rem)

\* the body of the for-of loop for one item
LowestTotalProcessItem(st, item, asg) ==
    LET sel == SelectedValid(Selected(asg, item.id))
        m == Len(sel)
    IN IF m = 0
       THEN [st EXCEPT !.unassigned_item_ids = Append(@, item.id)]
       ELSE LET cents == item.price_cents
            IN [st EXCEPT !.assigned_total_cents = @ + cents,
                          !.totals = LowestTotalRemainder(
                                         LowestTotalBase(@, sel, 1, Base(cents, m)),
                                         sel, 0, Rem(cents, m))]

RECURSIVE LowestTotalProcessItems(_, _, _, _)
LowestTotalProcessItems(st, its, k, asg) ==
    IF k > Len(its) THEN st
    ELSE LowestTotalProcessItems(LowestTotalProcessItem(st, its[k], asg), its, k + 1, asg)

\* the function as a whole; the returned object has the shape of the
\* stable-order version's
computePennyPerfectSplitLowestTotal(its, asg) ==
    StableResult(LowestTotalProcessItems(InitialLoopState, its, 1, asg), its)

(***************************************************************************)
(* Ledger: the tables and triggers of 002_participant_settlements.sql.     *)
(***************************************************************************)
\* largest item price (cents) of the ledger model
MaxCents == 1
\* participants that can be created
LedgerParticipants == {"p1", "p2"}
\* receipt_items that can be created, with the receipt_image each belongs to
ItemReceipt == [a1 |-> "r1", b1 |-> "r2"]
LedgerItems == DOMAIN ItemReceipt
LedgerReceipts == Range(ItemReceipt)

VARIABLES
    receipt_items,                 \* id -> [receipt_image_id, item_price_cents]
    running_total_cents,           \* participants.id -> running_total_cents
    participant_item_allocations,  \* set of [participant_id, receipt_item_id, amount_cents]
    lastOp                         \* the last statement or call and its outcome

ledgerVars == <<receipt_items, running_total_cents, participant_item_allocations, lastOp>>

\* the three tables as one value
DB(its, rt, allocs) ==
    [receipt_items |-> its, running_total_cents |-> rt,
     participant_item_allocations |-> allocs]

CurDB == DB(receipt_items, running_total_cents, participant_item_allocations)

Row(pid, itemId, amount) ==
    [participant_id |-> pid, receipt_item_id |-> itemId, amount_cents |-> amount]

\* the outcome of a statement: rejected statements leave the tables as they were
Accepted(db) == [ok |-> TRUE, db |-> db]
Rejected(db) == [ok |-> FALSE, db |-> db]

\* the BEFORE trigger without the comparison with the item price
validate_no_price_check(new, db) ==
    new.receipt_item_id \in DOMAIN db.receipt_items

\* the BEFORE trigger with the comparison off by one cent
validate_one_cent_over(new, db) ==
    IF new.receipt_item_id \notin DOMAIN db.receipt_items
    THEN FALSE
    ELSE IF new.amount_cents > db.receipt_items[new.receipt_item_id].item_price_cents + 1
         THEN FALSE
         ELSE TRUE

\* validate_allocation_amount(): TRUE when it returns NEW, FALSE when it raises
validate_allocation_amount(new, db) ==
    IF new.receipt_item_id \notin DOMAIN db.receipt_items
    THEN FALSE
    ELSE IF new.amount_cents > db.receipt_items[new.receipt_item_id].item_price_cents
         THEN FALSE
         ELSE TRUE

\* UPDATE participants SET running_total_cents = running_total_cents + delta WHERE id = pid
UpdateRunningTotal(rt, pid, delta) ==
    IF pid \in DOMAIN rt THEN [rt EXCEPT ![pid] = @ + delta] ELSE rt

\* the AFTER trigger with an UPDATE branch that forgets the old participant
apply_delta_forgets_old_participant(TG_OP, old, new, rt) ==
    IF TG_OP = "INSERT"
    THEN UpdateRunningTotal(rt, new.participant_id, new.amount_cents)
    ELSE IF TG_OP = "UPDATE"
    THEN IF new.participant_id = old.participant_id
         THEN UpdateRunningTotal(rt, new.participant_id,
                                 new.amount_cents - old.amount_cents)
         ELSE UpdateRunningTotal(rt, new.participant_id, new.amount_cents)
    ELSE UpdateRunningTotal(rt, old.participant_id, 0 - old.amount_cents)

\* the AFTER trigger with a DELETE branch that does nothing
apply_delta_ignores_delete(TG_OP, old, new, rt) ==
    IF TG_OP = "INSERT"
    THEN UpdateRunningTotal(rt, new.participant_id, new.amount_cents)
    ELSE IF TG_OP = "UPDATE"
    THEN IF new.participant_id = old.participant_id
         THEN UpdateRunningTotal(rt, new.participant_id,
                                 new.amount_cents - old.amount_cents)
         ELSE UpdateRunningTotal(
                  UpdateRunningTotal(rt, old.participant_id, 0 - old.amount_cents),
                  new.participant_id, new.amount_cents)
    ELSE rt

\* the AFTER trigger with an UPDATE branch that adds the new amount without
\* taking the old one off
apply_delta_update_adds_new_amount(TG_OP, old, new, rt) ==
    IF TG_OP = "INSERT"
    THEN UpdateRunningTotal(rt, new.participant_id, new.amount_cents)
    ELSE IF TG_OP = "UPDATE"
    THEN IF new.participant_id = old.participant_id
         THEN UpdateRunningTotal(rt, new.participant_id, new.amount_cents)
         ELSE UpdateRunningTotal(
                  UpdateRunningTotal(rt, old.participant_id, 0 - old.amount_cents),
                  new.participant_id, new.amount_cents)
    ELSE UpdateRunningTotal(rt, old.participant_id, 0 - old.amount_cents)

\* apply_allocation_delta_to_running_total(): the participants table after it
apply_allocation_delta_to_running_total(TG_OP, old, new, rt) ==
    IF TG_OP = "INSERT"
    THEN UpdateRunningTotal(rt, new.participant_id, new.amount_cents)
    ELSE IF TG_OP = "UPDATE"
    THEN IF new.participant_id = old.participant_id
         THEN UpdateRunningTotal(rt, new.participant_id,
                                 new.amount_cents - old.amount_cents)
         ELSE UpdateRunningTotal(
                  UpdateRunningTotal(rt, old.participant_id, 0 - old.amount_cents),
                  new.participant_id, new.amount_cents)
    ELSE UpdateRunningTotal(rt, old.participant_id, 0 - old.amount_cents)

\* CHECK (running_total_cents >= 0)
RunningTotalCheck(rt) == \A pid \in DOMAIN rt : rt[pid] >= 0

\* CHECK (amount_cents >= 0), the two REFERENCES and UNIQUE (participant_id,
\* receipt_item_id) for a row that joins the rows `others`
RowConstraints(new, db, others) ==
    /\ new.amount_cents >= 0
    /\ new.participant_id \in DOMAIN db.running_total_cents
    /\ new.receipt_item_id \in DOMAIN db.receipt_items
    /\ \A r \in others : ~(/\ r.participant_id = new.participant_id
                           /\ r.receipt_item_id = new.receipt_item_id)

\* INSERT INTO participant_item_allocations with both triggers
InsertRow(db, new) ==
    LET rt == apply_allocation_delta_to_running_total(
                  "INSERT", new, new, db.running_total_cents)
    IN IF /\ validate_allocation_amount(new, db)
          /\ RowConstraints(new, db, db.participant_item_allocations)
          /\ RunningTotalCheck(rt)
       THEN Accepted(DB(db.receipt_items, rt, db.participant_item_allocations \cup {new}))
       ELSE Rejected(db)

\* UPDATE participant_item_allocations SET ... for the row old (OLD), with both triggers
UpdateRow(db, old, new) ==
    LET rt == apply_allocation_delta_to_running_total(
                  "UPDATE", old, new, db.running_total_cents)
        others == db.participant_item_allocations \ {old}
    IN IF /\ validate_allocation_amount(new, db)
          /\ RowConstraints(new, db, others)
          /\ RunningTotalCheck(rt)
       THEN Accepted(DB(db.receipt_items, rt, others \cup {new}))
       ELSE Rejected(db)

\* DELETE FROM participant_item_allocations for the row old (OLD), with the AFTER trigger
DeleteRow(db, old) ==
    LET rt == apply_allocation_delta_to_running_total(
                  "DELETE", old, old, db.running_total_cents)
    IN IF RunningTotalCheck(rt)
       THEN Accepted(DB(db.receipt_items, rt, db.participant_item_allocations \ {old}))
       ELSE Rejected(db)

RECURSIVE DeleteRows(_, _)
\* the row-level deletes of one statement or cascade, one row after the other
DeleteRows(db, rows) ==
    IF rows = {} THEN Accepted(db)
    ELSE LET r == CHOOSE x \in rows : TRUE
             one == DeleteRow(db, r)
         IN IF one.ok THEN DeleteRows(one.db, rows \ {r}) ELSE one

RowsOfItems(db, itemIds) ==
    {r \in db.participant_item_allocations : r.receipt_item_id \in itemIds}

RowsOfParticipant(db, pid) ==
    {r \in db.participant_item_allocations : r.participant_id = pid}

Without(f, keys) == [k \in DOMAIN f \ keys |-> f[k]]

\* DELETE FROM receipt_items: ON DELETE CASCADE deletes the allocation rows
DeleteItems(db, itemIds) ==
    LET gone == DeleteRows(db, RowsOfItems(db, itemIds))
    IN IF gone.ok
       THEN Accepted(DB(Without(db.receipt_items, itemIds),
                        gone.db.running_total_cents,
                        gone.db.participant_item_allocations))
       ELSE Rejected(db)

ItemsOfReceipt(db, receiptId) ==
    {i \in DOMAIN db.receipt_items : db.receipt_items[i].receipt_image_id = receiptId}

\* DELETE FROM participants: ON DELETE CASCADE deletes the allocation rows; the
\* trigger's UPDATE then finds no participants row
DeleteParticipantRow(db, pid) ==
    LET gone == DeleteRows(DB(db.receipt_items, Without(db.running_total_cents, {pid}),
                              db.participant_item_allocations),
                           RowsOfParticipant(db, pid))
    IN IF gone.ok THEN gone ELSE Rejected(db)

RECURSIVE InsertRows(_, _, _)
\* the INSERTs of one transaction, in the order given; it stops at the first error
InsertRows(db, rows, k) ==
    IF k > Len(rows) THEN Accepted(db)
    ELSE LET one == InsertRow(db, rows[k])
         IN IF one.ok THEN InsertRows(one.db, rows, k + 1) ELSE one

\* replace_allocations: one transaction that deletes the allocation rows of the
\* receipt's items and inserts the new rows; an error rolls all of it back
replace_allocations(db, receiptId, rows) ==
    LET gone == DeleteRows(db, RowsOfItems(db, ItemsOfReceipt(db, receiptId)))
        done == IF gone.ok THEN InsertRows(gone.db, rows, 1) ELSE gone
    IN IF done.ok THEN done ELSE Rejected(db)

\* the rows a caller can hand to the data layer
LedgerAmounts == (0 - 1)..(MaxCents + 1)
LedgerRows == {Row(pid, i, amt) : pid \in LedgerParticipants, i \in LedgerItems,
                                  amt \in LedgerAmounts}

\* the row sequences of at most two rows for the items of a receipt
RowSeqsFor(receiptId, amounts) ==
    LET rows == {Row(pid, i, amt) : pid \in LedgerParticipants,
                                    i \in {j \in LedgerItems : ItemReceipt[j] = receiptId},
                                    amt \in amounts}
    IN {<<>>} \cup {<<r>> : r \in rows} \cup {<<r, q>> : r \in rows, q \in rows}

\* the new_allocations a replace_allocations call for a receipt can be made with
LedgerRowSeqs(receiptId) == RowSeqsFor(receiptId, LedgerAmounts)

\* a row that the data layer must refuse
InvalidRow(r, db) ==
    \/ r.amount_cents < 0
    \/ r.participant_id \notin DOMAIN db.running_total_cents
    \/ r.receipt_item_id \notin DOMAIN db.receipt_items
    \/ r.amount_cents > db.receipt_items[r.receipt_item_id].item_price_cents

Op(name, ok, invalid) == [op |-> name, ok |-> ok, invalid |-> invalid]

LedgerInit ==
    /\ receipt_items = <<>>
    /\ running_total_cents = <<>>
    /\ participant_item_allocations = {}
    /\ lastOp = Op("none", TRUE, 0)

SetDB(db) ==
    /\ receipt_items' = db.receipt_items
    /\ running_total_cents' = db.running_total_cents
    /\ participant_item_allocations' = db.participant_item_allocations

(***************************************************************************)
(* Concurrent replace_allocations transactions on the ledger tables.       *)
(***************************************************************************)
\* the connections that call replace_allocations
Txs == {"t1", "t2"}

VARIABLES
    tx,        \* per connection: the call in progress and its uncommitted work
    written    \* receipt -> the rows written by the last committed call for it

txVars == <<tx, written>>

\* a connection with no call in progress
IdleTx ==
    [pc |-> "idle", receipt |-> "", rows |-> <<>>, k |-> 1, mine |-> {},
     rt |-> <<>>, overlap |-> FALSE]

TxInit ==
    /\ tx = [t \in Txs |-> IdleTx]
    /\ written = [r \in LedgerReceipts |-> {}]

\* the transaction is between BEGIN and COMMIT / ROLLBACK
Active(t) == tx[t].pc \in {"delete", "insert"}

\* no row lock is taken: the total is written from a value read earlier
NoRowLocks(t) == {}

\* the participants rows on which another open transaction holds the row lock
\* that its UPDATE participants took
LockedByOthers(t) ==
    UNION {DOMAIN tx[u].rt : u \in {v \in Txs \ {t} : Active(v)}}

\* SET running_total_cents = running_total_cents + ...: the UPDATE of transaction
\* t reads the current row, its own uncommitted version or the committed one
VisibleRunningTotals(t) ==
    [pid \in DOMAIN running_total_cents |->
        IF pid \in DOMAIN tx[t].rt THEN tx[t].rt[pid] ELSE running_total_cents[pid]]

\* the allocation rows of the receipt's items
ReceiptRows(allocs, receiptId) ==
    {r \in allocs : ItemReceipt[r.receipt_item_id] = receiptId}

\* the tables as the statements of transaction t see them
VisibleDB(t) ==
    DB(receipt_items, VisibleRunningTotals(t),
       (participant_item_allocations \ ReceiptRows(participant_item_allocations,
                                                   tx[t].receipt))
           \cup tx[t].mine)

\* the uncommitted participants rows of t after a statement that touched pids
Pending(t, pids, rt) ==
    [pid \in (DOMAIN tx[t].rt \cup pids) \cap DOMAIN rt |-> rt[pid]]

\* the new_allocations of the calls of the concurrent runs: valid amounts
TxRowSeqs(receiptId) == RowSeqsFor(receiptId, 1..MaxCents)

(***************************************************************************)
(* Settlements: the participant_settlements table, record_settlement,      *)
(* get_outstanding and the Running balances page.                          *)
(***************************************************************************)
\* largest number of settlement rows
MaxSettlements == 2

VARIABLES
    participant_settlements,  \* the table: a bag of [participant_id, amount_cents]
    balances                  \* the page's fetched list: participant id -> outstanding_total_cents

settleVars == <<participant_settlements, balances>>

SettlementRow(pid, amount) == [participant_id |-> pid, amount_cents |-> amount]

\* the sum with equal settlement rows counted once
SettledSumDistinctRows(settlements, pid) ==
    LET rows == {r \in BagToSet(settlements) : r.participant_id = pid}
    IN SumOver([r \in rows |-> r.amount_cents], rows)

\* the sum of amount_cents over the settlement rows of a participant
SettledSum(settlements, pid) ==
    LET rows == {r \in BagToSet(settlements) : r.participant_id = pid}
    IN SumOver([r \in rows |-> r.amount_cents * CopiesIn(r, settlements)], rows)

\* get_outstanding: running_total_cents minus the settlements to date
get_outstanding(rt, settlements, pid) == rt[pid] - SettledSum(settlements, pid)

\* a record_settlement that also lowers the running total by the amount paid
record_settlement_lowers_total(rt, settlements, pid, amount) ==
    IF pid \in DOMAIN rt /\ amount >= 0
    THEN [ok |-> TRUE, rt |-> [rt EXCEPT ![pid] = IF @ >= amount THEN @ - amount ELSE 0],
          settlements |-> settlements (+) SetToBag({SettlementRow(pid, amount)})]
    ELSE [ok |-> FALSE, rt |-> rt, settlements |-> settlements]

\* record_settlement: INSERT INTO participant_settlements; the table has the
\* REFERENCES participants and CHECK (amount_cents >= 0) constraints and no trigger
record_settlement(rt, settlements, pid, amount) ==
    IF pid \in DOMAIN rt /\ amount >= 0
    THEN [ok |-> TRUE, rt |-> rt,
          settlements |-> settlements (+) SetToBag({SettlementRow(pid, amount)})]
    ELSE [ok |-> FALSE, rt |-> rt, settlements |-> settlements]

\* getRunningBalances: outstanding_total_cents of every participant
OutstandingBalances(rt, settlements) ==
    [pid \in DOMAIN rt |-> get_outstanding(rt, settlements, pid)]

\* REFERENCES participants(id) ON DELETE CASCADE on participant_settlements
CascadeSettlements(settlements, pid) ==
    LET keep == {r \in BagToSet(settlements) : r.participant_id # pid}
    IN [r \in keep |-> settlements[r]]

SettleInit ==
    /\ participant_settlements = EmptyBag
    /\ balances = <<>>

(***************************************************************************)
(* Frontend: the split flow (pages/SplitFlow, components/Assignments,      *)
(* components/Totals) and the Running balances page.                       *)
(***************************************************************************)
\* largest number of times the items are saved (replaceReceiptItems)
MaxItemSaves == 2
\* largest number of calculateSplit requests of the assign step in flight
MaxSubmissions == 2
\* largest number of requests one Totals view starts
MaxTotalsRequests == 4
\* largest number of settle requests in flight
MaxSettleRequests == 3

VARIABLES
    flow,        \* SplitFlow and Assignments state: step, items, selectedParticipantIds,
                 \* assignments, isSubmitting, showErrors, the number of item saves and
                 \* the calculateSplit requests of handlePersistAssignments in flight
    totalsView,  \* Totals: mounted, the requests of its effect, what is displayed
    settlePage   \* RunningBalances: settlingParticipantId and the settle requests in flight

uiVars == <<flow, totalsView, settlePage>>

\* allParticipants, as listParticipants returned them
allParticipants == <<"p1", "p2">>

\* the ids replaceReceiptItems gives the items of the n-th save (n = 0: the
\* temp_ids of the parsed receipt)
SavedItemIds(n) == {<<n, id>> : id \in Range(ItemIds)}

\* allParticipants.filter(p => selectedParticipantIds.includes(p.id))
selectedParticipants(ids) == SelectSeq(allParticipants, LAMBDA pid : pid \in ids)

RECURSIVE unique(_)
\* Array.from(new Set(arr)): the first occurrence of every id, in order
unique(arr) ==
    IF arr = <<>> THEN <<>>
    ELSE LET front == unique(SubSeq(arr, 1, Len(arr) - 1))
             last == arr[Len(arr)]
         IN IF last \in Range(front) THEN front ELSE Append(front, last)

\* the memo without the filter on participantIds
normalizedAssignmentsUnfiltered(its, pids, asg) ==
    [it \in its |-> unique(IF it \in DOMAIN asg THEN asg[it] ELSE <<>>)]

\* next[it.id] = unique((assignments[it.id] ?? []).filter(pid => participantIds.has(pid)))
normalizedAssignments(its, pids, asg) ==
    [it \in its |->
        unique(SelectSeq(IF it \in DOMAIN asg THEN asg[it] ELSE <<>>,
                         LAMBDA pid : pid \in pids))]

\* the memo of the component as rendered from the state f
Normalized(f) == normalizedAssignments(f.items, f.selectedParticipantIds, f.assignments)

\* items.filter(it => (normalizedAssignments[it.id] ?? []).length === 0)
Missing(f) == {it \in f.items : Len(Normalized(f)[it]) = 0}

\* { ...normalizedAssignments, [itemId]: unique(nextSelected.filter(has)) }
setItemSelection(f, itemId, nextSelected) ==
    [it \in f.items |->
        IF it = itemId
        THEN unique(SelectSeq(nextSelected, LAMBDA pid : pid \in f.selectedParticipantIds))
        ELSE Normalized(f)[it]]

\* a calculateSplit request of handlePersistAssignments; live: the Assignments
\* instance that awaits it is still mounted
Submission(pids, asg) == [participants |-> pids, assignments |-> asg, live |-> TRUE]

\* the Assignments component unmounts: its state is gone and the requests it
\* awaits no longer reach it
Unmounted(f) ==
    [f EXCEPT !.isSubmitting = FALSE, !.showErrors = FALSE,
              !.requests = [k \in DOMAIN @ |-> [@[k] EXCEPT !.live = FALSE]]]

\* the sequence s without its k-th element
RemoveAt(s, k) == SubSeq(s, 1, k - 1) \o SubSeq(s, k + 1, Len(s))

FlowInit ==
    flow = [step |-> "verify", items |-> SavedItemIds(0), selectedParticipantIds |-> {},
            assignments |-> <<>>, isSubmitting |-> FALSE, showErrors |-> FALSE,
            saves |-> 0, requests |-> <<>>]

\* a request of the Totals effect; isActive is the flag of the effect run that
\* started it
TotalsRequest(id) == [id |-> id, isActive |-> TRUE]

\* the flag read as always true
isActiveAlways(req) == TRUE

\* if (!isActive) return
isActive(req) == req.isActive

\* the effect's cleanup: isActive = false
Cleanup(requests) == {[req EXCEPT !.isActive = FALSE] : req \in requests}

TotalsInit ==
    totalsView = [mounted |-> FALSE, started |-> 0, requests |-> {}, shown |-> 0,
                  isLoading |-> FALSE]

SettlePageInit ==
    settlePage = [settlingParticipantId |-> "null", requests |-> EmptyBag]

UiInit == FlowInit /\ TotalsInit /\ SettlePageInit

(***************************************************************************)
(* The inputs a call is checked on.                                        *)
(***************************************************************************)
ItemSeqs ==
    UNION {{[k \in 1..n |-> [id |-> ItemIds[k], price_cents |-> pr[k]]] :
                pr \in [1..n -> Prices]} : n \in 1..Len(ItemIds)}

AssignmentArrays == SeqsUpTo(participantIds \cup {UnknownId}, MaxAssigned)

AssignedCount(asg) == SumOver([id \in DOMAIN asg |-> Len(asg[id])], DOMAIN asg)

AssignmentMaps(its) ==
    LET ids == {its[k].id : k \in DOMAIN its}
    IN {asg \in UNION {[D -> AssignmentArrays] : D \in SUBSET ids} :
            AssignedCount(asg) <= MaxAssigned}

CurState == LoopState(totals, details, unassigned_item_ids, assigned_total_cents)

CurItem == items[itemPos]

SplitInit ==
    /\ items \in ItemSeqs
    /\ assignments \in AssignmentMaps(items)
    /\ pc = "loop"
    /\ itemPos = 1
    /\ totals = InitialLoopState.totals
    /\ details = InitialLoopState.details
    /\ unassigned_item_ids = <<>>
    /\ assigned_total_cents = 0
    /\ selectedValid = <<>>
    /\ remI = 0
    /\ result = <<>>

SetLoopState(st) ==
    /\ totals' = st.totals
    /\ details' = st.details
    /\ unassigned_item_ids' = st.unassigned_item_ids
    /\ assigned_total_cents' = st.assigned_total_cents

\* m === 0: unassigned_item_ids.push(item.id); continue
SkipUnassigned ==
    /\ pc = "loop"
    /\ itemPos <= Len(items)
    /\ Len(SelectedValid(Selected(assignments, CurItem.id))) = 0
    /\ SetLoopState([CurState EXCEPT !.unassigned_item_ids = Append(@, CurItem.id)])
    /\ itemPos' = itemPos + 1
    /\ selectedValid' = <<>>
    /\ UNCHANGED <<items, assignments, pc, remI, result>>
    /\ UNCHANGED <<ledgerVars, txVars, settleVars, uiVars>>

\* m > 0: assigned_total_cents += cents and the base allocation
BaseStep ==
    /\ pc = "loop"
    /\ itemPos <= Len(items)
    /\ LET sel == SelectedValid(Selected(assignments, CurItem.id))
           m == Len(sel)
           cents == CurItem.price_cents
       IN /\ m > 0
          /\ SetLoopState(BaseAllocation(
                 [CurState EXCEPT !.assigned_total_cents = @ + cents],
                 CurItem, sel, 1, Base(cents, m)))
          /\ selectedValid' = sel
          /\ remI' = 0
          /\ IF Rem(cents, m) > 0
             THEN pc' = "rem" /\ itemPos' = itemPos
             ELSE pc' = "loop" /\ itemPos' = itemPos + 1
    /\ UNCHANGED <<items, assignments, result>>
    /\ UNCHANGED <<ledgerVars, txVars, settleVars, uiVars>>

\* one remainder cent of the current item
RemainderStep ==
    /\ pc = "rem"
    /\ SetLoopState(RemainderCent(CurState, CurItem, selectedValid))
    /\ remI' = remI + 1
    /\ IF remI + 1 < Rem(CurItem.price_cents, Len(selectedValid))
       THEN pc' = "rem" /\ itemPos' = itemPos
       ELSE pc' = "loop" /\ itemPos' = itemPos + 1
    /\ UNCHANGED <<items, assignments, selectedValid, result>>
    /\ UNCHANGED <<ledgerVars, txVars, settleVars, uiVars>>

\* per_person is built and the result returned
Return ==
    /\ pc = "loop"
    /\ itemPos > Len(items)
    /\ result' = SplitResult(CurState, items)
    /\ pc' = "done"
    /\ UNCHANGED <<items, assignments, itemPos, totals, details,
                   unassigned_item_ids, assigned_total_cents, selectedValid, remI>>
    /\ UNCHANGED <<ledgerVars, txVars, settleVars, uiVars>>

SplitNext == SkipUnassigned \/ BaseStep \/ RemainderStep \/ Return

vars == <<splitVars, ledgerVars, txVars, settleVars, uiVars>>

\* the split engine called on every input of the bounded sets; the ledger is idle
InitSplit == SplitInit /\ LedgerInit /\ TxInit /\ SettleInit /\ UiInit

SpecSplit == InitSplit /\ [][SplitNext]_vars

(***************************************************************************)
(* Receipts whose items are shared by everybody.                           *)
(***************************************************************************)
\* largest number of items of such a receipt
MaxItems == 3
\* item prices in cents
SpreadPrices == {0, 1, 2, 4, 100}

\* the id of the k-th item
SpreadItemId(k) == ToString(k)

SpreadItemSeqs ==
    UNION {{[k \in 1..n |-> [id |-> SpreadItemId(k), price_cents |-> pr[k]]] :
                pr \in [1..n -> SpreadPrices]} : n \in 1..MaxItems}

\* the array with the elements of s in the opposite order
Reverse(s) == [k \in DOMAIN s |-> s[Len(s) + 1 - k]]

\* every item has all participants, in list order or in the opposite order,
\* or no entry in the map
SpreadAssignmentMaps(its) ==
    LET ids == {its[k].id : k \in DOMAIN its}
    IN UNION {[D -> {participants, Reverse(participants)}] : D \in SUBSET ids}

SpreadInit ==
    /\ items \in SpreadItemSeqs
    /\ assignments \in SpreadAssignmentMaps(items)
    /\ pc = "loop"
    /\ itemPos = 1
    /\ totals = InitialLoopState.totals
    /\ details = InitialLoopState.details
    /\ unassigned_item_ids = <<>>
    /\ assigned_total_cents = 0
    /\ selectedValid = <<>>
    /\ remI = 0
    /\ result = <<>>

\* the split engine called on receipts of up to MaxItems items
InitSpread == SpreadInit /\ LedgerInit /\ TxInit /\ SettleInit /\ UiInit

SpecSpread == InitSpread /\ [][SplitNext]_vars

(***************************************************************************)
(* The steps of the stable-order version.                                  *)
(***************************************************************************)
\* m === 0: unassigned_item_ids.push(item.id); continue
StableSkip ==
    /\ pc = "loop"
    /\ itemPos <= Len(items)
    /\ Len(SelectedValid(Selected(assignments, CurItem.id))) = 0
    /\ SetLoopState(StableProcessItem(CurState, CurItem, assignments))
    /\ itemPos' = itemPos + 1
    /\ selectedValid' = <<>>
    /\ UNCHANGED <<items, assignments, pc, remI, result>>
    /\ UNCHANGED <<ledgerVars, txVars, settleVars, uiVars>>

\* m > 0: assigned_total_cents += cents and the forEach over selectedValid
StableItem ==
    /\ pc = "loop"
    /\ itemPos <= Len(items)
    /\ Len(SelectedValid(Selected(assignments, CurItem.id))) > 0
    /\ SetLoopState(StableProcessItem(CurState, CurItem, assignments))
    /\ selectedValid' = SelectedValid(Selected(assignments, CurItem.id))
    /\ itemPos' = itemPos + 1
    /\ UNCHANGED <<items, assignments, pc, remI, result>>
    /\ UNCHANGED <<ledgerVars, txVars, settleVars, uiVars>>

\* per_person is built and the result returned
StableReturn ==
    /\ pc = "loop"
    /\ itemPos > Len(items)
    /\ result' = StableResult(CurState, items)
    /\ pc' = "done"
    /\ UNCHANGED <<items, assignments, itemPos, totals, details,
                   unassigned_item_ids, assigned_total_cents, selectedValid, remI>>
    /\ UNCHANGED <<ledgerVars, txVars, settleVars, uiVars>>

StableNext == StableSkip \/ StableItem \/ StableReturn

\* the stable-order version called on every input of the bounded sets
SpecStable == InitSplit /\ [][StableNext]_vars

(***************************************************************************)
(* Receipts of two items whose assignees differ from item to item.         *)
(***************************************************************************)
\* largest number of entries of one assignment array
MaxEntries == 3
\* item prices in cents
CarryPrices == {1, 2, 100}

CarryItemSeqs ==
    {[k \in DOMAIN ItemIds |-> [id |-> ItemIds[k], price_cents |-> pr[k]]] :
        pr \in [DOMAIN ItemIds -> CarryPrices]}

\* arrays of participant ids, an id possibly more than once, written in list order
CarryArrays ==
    {s \in SeqsUpTo(participantIds, MaxEntries) :
        \A j, k \in DOMAIN s : j < k => participantIndex[s[j]] <= participantIndex[s[k]]}

CarryInit ==
    /\ items \in CarryItemSeqs
    /\ assignments \in [Range(ItemIds) -> CarryArrays]
    /\ pc = "loop"
    /\ itemPos = 1
    /\ totals = InitialLoopState.totals
    /\ details = InitialLoopState.details
    /\ unassigned_item_ids = <<>>
    /\ assigned_total_cents = 0
    /\ selectedValid = <<>>
    /\ remI = 0
    /\ result = <<>>

InitCarry == CarryInit /\ LedgerInit /\ TxInit /\ SettleInit /\ UiInit

SpecCarry == InitCarry /\ [][SplitNext]_vars

(***************************************************************************)
(* The statements and calls that act on the ledger.                        *)
(***************************************************************************)
\* no call of the split engine is in progress
SplitIdle ==
    /\ items = <<>>
    /\ assignments = <<>>
    /\ pc = "idle"
    /\ itemPos = 1
    /\ totals = InitialLoopState.totals
    /\ details = InitialLoopState.details
    /\ unassigned_item_ids = <<>>
    /\ assigned_total_cents = 0
    /\ selectedValid = <<>>
    /\ remI = 0
    /\ result = <<>>

\* INSERT INTO participants: running_total_cents DEFAULT 0
CreateParticipant(pid) ==
    /\ pid \notin DOMAIN running_total_cents
    /\ running_total_cents' = [q \in DOMAIN running_total_cents \cup {pid} |->
                                  IF q = pid THEN 0 ELSE running_total_cents[q]]
    /\ lastOp' = Op("create_participant", TRUE, 0)
    /\ UNCHANGED <<receipt_items, participant_item_allocations, splitVars, txVars,
                   settleVars, uiVars>>

\* DELETE FROM participants WHERE id = pid
DeleteParticipant(pid) ==
    /\ pid \in DOMAIN running_total_cents
    /\ LET res == DeleteParticipantRow(CurDB, pid)
       IN /\ SetDB(res.db)
          /\ lastOp' = Op("delete_participant", res.ok, 0)
          /\ participant_settlements' =
                IF res.ok THEN CascadeSettlements(participant_settlements, pid)
                ELSE participant_settlements
    /\ UNCHANGED <<balances, splitVars, txVars, uiVars>>

\* INSERT INTO receipt_items
InsertItem(itemId, price) ==
    /\ itemId \notin DOMAIN receipt_items
    /\ receipt_items' = [i \in DOMAIN receipt_items \cup {itemId} |->
                            IF i = itemId
                            THEN [receipt_image_id |-> ItemReceipt[itemId],
                                  item_price_cents |-> price]
                            ELSE receipt_items[i]]
    /\ lastOp' = Op("insert_item", TRUE, 0)
    /\ UNCHANGED <<running_total_cents, participant_item_allocations, splitVars, txVars,
                   settleVars, uiVars>>

\* DELETE FROM receipt_items WHERE id = itemId
DeleteItem(itemId) ==
    /\ itemId \in DOMAIN receipt_items
    /\ LET res == DeleteItems(CurDB, {itemId})
       IN SetDB(res.db) /\ lastOp' = Op("delete_item", res.ok, 0)
    /\ UNCHANGED <<splitVars, txVars, settleVars, uiVars>>

\* DELETE FROM receipt_images WHERE id = receiptId: cascades to its receipt_items
DeleteReceipt(receiptId) ==
    /\ ItemsOfReceipt(CurDB, receiptId) # {}
    /\ LET res == DeleteItems(CurDB, ItemsOfReceipt(CurDB, receiptId))
       IN SetDB(res.db) /\ lastOp' = Op("delete_receipt", res.ok, 0)
    /\ UNCHANGED <<splitVars, txVars, settleVars, uiVars>>

\* INSERT INTO participant_item_allocations
InsertAllocation(row) ==
    /\ LET res == InsertRow(CurDB, row)
       IN SetDB(res.db) /\ lastOp' = Op("insert", res.ok, 0)
    /\ UNCHANGED <<splitVars, txVars, settleVars, uiVars>>

\* UPDATE participant_item_allocations SET (participant_id, receipt_item_id,
\* amount_cents) = row WHERE id = old.id
UpdateAllocation(old, row) ==
    /\ old \in participant_item_allocations
    /\ LET res == UpdateRow(CurDB, old, row)
       IN SetDB(res.db) /\ lastOp' = Op("update", res.ok, 0)
    /\ UNCHANGED <<splitVars, txVars, settleVars, uiVars>>

\* DELETE FROM participant_item_allocations WHERE id = old.id
DeleteAllocation(old) ==
    /\ old \in participant_item_allocations
    /\ LET res == DeleteRow(CurDB, old)
       IN SetDB(res.db) /\ lastOp' = Op("delete", res.ok, 0)
    /\ UNCHANGED <<splitVars, txVars, settleVars, uiVars>>

\* position of the first row of rows that the data layer must refuse, 0 if none
FirstInvalid(rows, db) ==
    IF \E k \in DOMAIN rows : InvalidRow(rows[k], db)
    THEN CHOOSE k \in DOMAIN rows :
            /\ InvalidRow(rows[k], db)
            /\ \A j \in 1..(k - 1) : ~InvalidRow(rows[j], db)
    ELSE 0

\* a call of replace_allocations for a receipt with a caller-supplied row set
ReplaceAllocations(receiptId, rows) ==
    /\ LET res == replace_allocations(CurDB, receiptId, rows)
       IN SetDB(res.db) /\ lastOp' = Op("replace", res.ok, FirstInvalid(rows, CurDB))
    /\ UNCHANGED <<splitVars, txVars, settleVars, uiVars>>

LedgerNext ==
    \/ \E pid \in LedgerParticipants : CreateParticipant(pid)
    \/ \E pid \in LedgerParticipants : DeleteParticipant(pid)
    \/ \E i \in LedgerItems, price \in 0..MaxCents : InsertItem(i, price)
    \/ \E i \in LedgerItems : DeleteItem(i)
    \/ \E r \in LedgerReceipts : DeleteReceipt(r)
    \/ \E row \in LedgerRows : InsertAllocation(row)
    \/ \E old \in participant_item_allocations, row \in LedgerRows :
          UpdateAllocation(old, row)
    \/ \E old \in participant_item_allocations : DeleteAllocation(old)
    \/ \E r \in LedgerReceipts : \E rows \in LedgerRowSeqs(r) : ReplaceAllocations(r, rows)

\* the ledger under any sequence of statements and replace_allocations calls
InitLedger == SplitIdle /\ LedgerInit /\ TxInit /\ SettleInit /\ UiInit

SpecLedger == InitLedger /\ [][LedgerNext]_vars

(***************************************************************************)
(* The steps of a replace_allocations transaction.                         *)
(***************************************************************************)
\* a caller issues replace_allocations for a receipt
Request(t, receiptId, rows) ==
    /\ tx[t].pc = "idle"
    /\ tx' = [tx EXCEPT ![t] = [IdleTx EXCEPT !.pc = "waiting", !.receipt = receiptId,
                                              !.rows = rows]]
    /\ UNCHANGED <<written, splitVars, ledgerVars, settleVars, uiVars>>

\* the transaction begins once no other transaction works on the same receipt
Begin(t) ==
    /\ tx[t].pc = "waiting"
    /\ \A u \in Txs \ {t} : ~(Active(u) /\ tx[u].receipt = tx[t].receipt)
    /\ LET open == {u \in Txs \ {t} : Active(u)}
       IN tx' = [u \in Txs |->
                   IF u = t
                   THEN [tx[t] EXCEPT !.pc = "delete",
                                      !.overlap = (open # {}),
                                      !.mine = ReceiptRows(participant_item_allocations,
                                                           tx[t].receipt)]
                   ELSE IF u \in open THEN [tx[u] EXCEPT !.overlap = TRUE]
                   ELSE tx[u]]
    /\ UNCHANGED <<written, splitVars, ledgerVars, settleVars, uiVars>>

\* DELETE FROM participant_item_allocations for the receipt's items
TxDelete(t) ==
    /\ tx[t].pc = "delete"
    /\ LET pids == {r.participant_id : r \in tx[t].mine}
           res == DeleteRows(VisibleDB(t), tx[t].mine)
       IN /\ pids \cap LockedByOthers(t) = {}
          /\ IF res.ok
             THEN tx' = [tx EXCEPT ![t].pc = "insert", ![t].mine = {},
                                   ![t].rt = Pending(t, pids, res.db.running_total_cents)]
             ELSE tx' = [tx EXCEPT ![t] = [IdleTx EXCEPT !.pc = "aborted"]]
    /\ UNCHANGED <<written, splitVars, ledgerVars, settleVars, uiVars>>

\* INSERT of the next row of new_allocations
TxInsert(t) ==
    /\ tx[t].pc = "insert"
    /\ tx[t].k <= Len(tx[t].rows)
    /\ LET row == tx[t].rows[tx[t].k]
           res == InsertRow(VisibleDB(t), row)
       IN IF res.ok
          THEN /\ row.participant_id \notin LockedByOthers(t)
               /\ tx' = [tx EXCEPT ![t].k = @ + 1,
                                   ![t].mine = @ \cup {row},
                                   ![t].rt = Pending(t, {row.participant_id},
                                                     res.db.running_total_cents)]
          ELSE tx' = [tx EXCEPT ![t] = [IdleTx EXCEPT !.pc = "aborted"]]
    /\ UNCHANGED <<written, splitVars, ledgerVars, settleVars, uiVars>>

\* COMMIT: the rows and the running totals of t become visible together
Commit(t) ==
    /\ tx[t].pc = "insert"
    /\ tx[t].k > Len(tx[t].rows)
    /\ participant_item_allocations' =
          (participant_item_allocations \ ReceiptRows(participant_item_allocations,
                                                      tx[t].receipt))
              \cup tx[t].mine
    /\ running_total_cents' = VisibleRunningTotals(t)
    /\ written' = [written EXCEPT ![tx[t].receipt] = Range(tx[t].rows)]
    /\ tx' = [tx EXCEPT ![t].pc = "committed", ![t].mine = {}, ![t].rt = <<>>,
                        ![t].k = 1]
    /\ UNCHANGED <<receipt_items, lastOp, splitVars, settleVars, uiVars>>

\* ROLLBACK: an error, a deadlock or a timeout ends the transaction
Abort(t) ==
    /\ Active(t)
    /\ tx' = [tx EXCEPT ![t] = [IdleTx EXCEPT !.pc = "aborted"]]
    /\ UNCHANGED <<written, splitVars, ledgerVars, settleVars, uiVars>>

\* the call returns to its caller
Finish(t) ==
    /\ tx[t].pc \in {"committed", "aborted"}
    /\ tx' = [tx EXCEPT ![t] = IdleTx]
    /\ UNCHANGED <<written, splitVars, ledgerVars, settleVars, uiVars>>

\* two participants and one item per receipt exist; no allocation yet
TxLedgerInit ==
    /\ receipt_items = [i \in LedgerItems |->
                           [receipt_image_id |-> ItemReceipt[i],
                            item_price_cents |-> MaxCents]]
    /\ running_total_cents = [pid \in LedgerParticipants |-> 0]
    /\ participant_item_allocations = {}
    /\ lastOp = Op("none", TRUE, 0)

TxNext ==
    \/ \E t \in Txs, r \in LedgerReceipts : \E rows \in TxRowSeqs(r) : Request(t, r, rows)
    \/ \E t \in Txs : Begin(t)
    \/ \E t \in Txs : TxDelete(t)
    \/ \E t \in Txs : TxInsert(t)
    \/ \E t \in Txs : Commit(t)
    \/ \E t \in Txs : Abort(t)
    \/ \E t \in Txs : Finish(t)

\* replace_allocations calls of two connections running concurrently
InitTx == SplitIdle /\ TxLedgerInit /\ TxInit /\ SettleInit /\ UiInit

SpecTx == InitTx /\ [][TxNext]_vars

(***************************************************************************)
(* Settlements recorded against the ledger.                                *)
(***************************************************************************)
\* amounts a caller passes to record_settlement
SettleAmounts == (0 - 1)..MaxCents

\* the allocation rows that come and go while settlements are recorded
SettleLedgerRows == {Row(pid, "a1", amt) : pid \in LedgerParticipants, amt \in 1..MaxCents}

\* record_settlement(pid, amount) called directly
RecordSettlement(pid, amount) ==
    /\ BagCardinality(participant_settlements) < MaxSettlements
    /\ LET res == record_settlement(running_total_cents, participant_settlements,
                                    pid, amount)
       IN /\ participant_settlements' = res.settlements
          /\ running_total_cents' = res.rt
          /\ lastOp' = Op("record_settlement", res.ok, 0)
    /\ UNCHANGED <<receipt_items, participant_item_allocations, balances,
                   splitVars, txVars, uiVars>>

\* the page's effect: getRunningBalances, then setParticipants(balances)
FetchRunningBalances ==
    /\ balances' = OutstandingBalances(running_total_cents, participant_settlements)
    /\ lastOp' = Op("fetch_balances", TRUE, 0)
    /\ UNCHANGED <<receipt_items, running_total_cents, participant_item_allocations,
                   participant_settlements, splitVars, txVars, uiVars>>

\* the "Settle in full" button of a listed participant: record_settlement with
\* the listed outstanding_total_cents; on success the participant leaves the list
SettleInFull(pid) ==
    /\ pid \in DOMAIN balances
    /\ BagCardinality(participant_settlements) < MaxSettlements
    /\ LET res == record_settlement(running_total_cents, participant_settlements,
                                    pid, balances[pid])
       IN /\ participant_settlements' = res.settlements
          /\ running_total_cents' = res.rt
          /\ balances' = IF res.ok THEN Without(balances, {pid}) ELSE balances
          /\ lastOp' = Op("settle_in_full", res.ok, 0)
    /\ UNCHANGED <<receipt_items, participant_item_allocations, splitVars, txVars, uiVars>>

SettleNext ==
    \/ \E pid \in LedgerParticipants, amount \in SettleAmounts : RecordSettlement(pid, amount)
    \/ FetchRunningBalances
    \/ \E pid \in LedgerParticipants : SettleInFull(pid)
    \/ \E pid \in LedgerParticipants : CreateParticipant(pid)
    \/ \E pid \in LedgerParticipants : DeleteParticipant(pid)
    \/ \E row \in SettleLedgerRows : InsertAllocation(row)
    \/ \E old \in participant_item_allocations : DeleteAllocation(old)

\* settlements recorded while allocations come and go; the items exist
InitSettle == SplitIdle /\ TxLedgerInit /\ TxInit /\ SettleInit /\ UiInit

SpecSettle == InitSettle /\ [][SettleNext]_vars

(***************************************************************************)
(* The split flow: the verify, participants, assign and totals steps.      *)
(***************************************************************************)
SetFlow(f) ==
    /\ flow' = f
    /\ UNCHANGED <<totalsView, settlePage, splitVars, ledgerVars, txVars, settleVars>>

\* handlePersistItems: replaceReceiptItems gives the items new ids, the
\* selection is cleared and the flow moves to the participants step
PersistItems ==
    /\ flow.step = "verify"
    /\ flow.saves < MaxItemSaves
    /\ SetFlow([flow EXCEPT !.items = SavedItemIds(flow.saves + 1),
                            !.saves = @ + 1,
                            !.selectedParticipantIds = {},
                            !.step = "participants"])

\* onSelectionChange: a participant is selected or deselected
ToggleParticipant(pid) ==
    /\ flow.step = "participants"
    /\ SetFlow([flow EXCEPT !.selectedParticipantIds =
                    IF pid \in @ THEN @ \ {pid} ELSE @ \cup {pid}])

\* handlePersistParticipants: setStep("assign")
ParticipantsNext ==
    /\ flow.step = "participants"
    /\ SetFlow([flow EXCEPT !.step = "assign"])

\* onBack of the participants step
ParticipantsBack ==
    /\ flow.step = "participants"
    /\ SetFlow([flow EXCEPT !.step = "verify"])

\* a participant chip of an item: the id is removed if active, appended if not
ToggleChip(it, pid) ==
    /\ flow.step = "assign"
    /\ ~flow.isSubmitting
    /\ it \in flow.items
    /\ pid \in flow.selectedParticipantIds
    /\ LET selected == Normalized(flow)[it]
           next == IF pid \in Range(selected)
                   THEN SelectSeq(selected, LAMBDA id : id # pid)
                   ELSE Append(selected, pid)
       IN SetFlow([flow EXCEPT !.assignments = setItemSelection(flow, it, next)])

\* "Select everyone for all items"
SelectEveryone ==
    /\ flow.step = "assign"
    /\ ~flow.isSubmitting
    /\ SetFlow([flow EXCEPT !.assignments =
                    [it \in flow.items |-> selectedParticipants(flow.selectedParticipantIds)]])

\* "Clear all selections"
ClearAll ==
    /\ flow.step = "assign"
    /\ ~flow.isSubmitting
    /\ SetFlow([flow EXCEPT !.assignments = [it \in flow.items |-> <<>>]])

\* onBack of the assign step
AssignBack ==
    /\ flow.step = "assign"
    /\ ~flow.isSubmitting
    /\ SetFlow([Unmounted(flow) EXCEPT !.step = "participants"])

\* the Next button of the assign step, an item without a selected participant:
\* the errors are shown and nothing else happens
NextMissing ==
    /\ flow.step = "assign"
    /\ Missing(flow) # {}
    /\ SetFlow([flow EXCEPT !.showErrors = TRUE])

\* the Next button of the assign step, nothing missing:
\* onChange(normalizedAssignments), setIsSubmitting(true), and onNext() is
\* handlePersistAssignments of the render the click happens in, which passes
\* the assignments of that render to calculateSplit
NextSubmit ==
    /\ flow.step = "assign"
    /\ Missing(flow) = {}
    /\ Len(flow.requests) < MaxSubmissions
    /\ SetFlow([flow EXCEPT
           !.assignments = Normalized(flow),
           !.isSubmitting = TRUE,
           !.requests = Append(@, Submission(selectedParticipants(flow.selectedParticipantIds),
                                             flow.assignments))])

\* calculateSplit of handlePersistAssignments returns: setStep("totals") on
\* success, setError on failure; then the finally of the click handler,
\* setIsSubmitting(false), if its component is still there
SubmitResponse(k, ok) ==
    /\ k \in DOMAIN flow.requests
    /\ LET req == flow.requests[k]
           f1 == [flow EXCEPT !.requests = RemoveAt(@, k)]
           f2 == IF req.live THEN [f1 EXCEPT !.isSubmitting = FALSE] ELSE f1
       IN SetFlow(IF ok
                  THEN [(IF f2.step = "assign" THEN Unmounted(f2) ELSE f2)
                            EXCEPT !.step = "totals"]
                  ELSE f2)

\* onBack of the totals step
TotalsBack ==
    /\ flow.step = "totals"
    /\ SetFlow([flow EXCEPT !.step = "assign"])

FlowNext ==
    \/ PersistItems
    \/ \E pid \in Range(allParticipants) : ToggleParticipant(pid)
    \/ ParticipantsNext
    \/ ParticipantsBack
    \/ \E it \in flow.items, pid \in Range(allParticipants) : ToggleChip(it, pid)
    \/ SelectEveryone
    \/ ClearAll
    \/ AssignBack
    \/ NextMissing
    \/ NextSubmit
    \/ \E k \in 1..MaxSubmissions, ok \in BOOLEAN : SubmitResponse(k, ok)
    \/ TotalsBack

\* the flow from the verify step on; the split engine and the ledger are idle
InitFlow == SplitIdle /\ LedgerInit /\ TxInit /\ SettleInit /\ UiInit

SpecFlow == InitFlow /\ [][FlowNext]_vars

(***************************************************************************)
(* The Running balances page: settle requests in flight.                   *)
(***************************************************************************)
\* the settle requests in flight for a participant
SettleRequestsOf(pid) ==
    LET reqs == {q \in BagToSet(settlePage.requests) : q.participant_id = pid}
    IN SumOver([q \in reqs |-> CopiesIn(q, settlePage.requests)], reqs)

\* the page is opened: the effect fetches the balances
LoadPage ==
    /\ settlePage.requests = EmptyBag
    /\ balances' = OutstandingBalances(running_total_cents, participant_settlements)
    /\ settlePage' = [settlePage EXCEPT !.settlingParticipantId = "null"]
    /\ lastOp' = Op("fetch_balances", TRUE, 0)
    /\ UNCHANGED <<receipt_items, running_total_cents, participant_item_allocations,
                   participant_settlements, flow, totalsView, splitVars, txVars>>

\* "Settle in full" of a listed participant is pressed; the button is disabled
\* only while settlingParticipantId is that participant:
\* setSettlingParticipantId(pid) and the request leaves with the listed amount
ClickSettleInFull(pid) ==
    /\ pid \in DOMAIN balances
    /\ settlePage.settlingParticipantId # pid
    /\ BagCardinality(settlePage.requests) < MaxSettleRequests
    /\ settlePage' = [settlingParticipantId |-> pid,
                      requests |-> settlePage.requests (+)
                                       SetToBag({SettlementRow(pid, balances[pid])})]
    /\ UNCHANGED <<ledgerVars, settleVars, flow, totalsView, splitVars, txVars>>

\* a settle request is served and its response arrives: on success the
\* participant leaves the list; finally setSettlingParticipantId(null)
SettleResponse(req) ==
    /\ BagIn(req, settlePage.requests)
    /\ BagCardinality(participant_settlements) < MaxSettlements
    /\ LET res == record_settlement(running_total_cents, participant_settlements,
                                    req.participant_id, req.amount_cents)
       IN /\ participant_settlements' = res.settlements
          /\ running_total_cents' = res.rt
          /\ balances' = IF res.ok THEN Without(balances, {req.participant_id})
                         ELSE balances
          /\ lastOp' = Op("settle_in_full", res.ok, 0)
    /\ settlePage' = [settlingParticipantId |-> "null",
                      requests |-> settlePage.requests (-) SetToBag({req})]
    /\ UNCHANGED <<receipt_items, participant_item_allocations, flow, totalsView,
                   splitVars, txVars>>

SettlePageNext ==
    \/ LoadPage
    \/ \E pid \in LedgerParticipants : ClickSettleInFull(pid)
    \/ \E req \in BagToSet(settlePage.requests) : SettleResponse(req)
    \/ \E row \in SettleLedgerRows : InsertAllocation(row)
    \/ \E old \in participant_item_allocations : DeleteAllocation(old)

\* the page over a ledger whose allocations come and go
InitSettlePage == SplitIdle /\ TxLedgerInit /\ TxInit /\ SettleInit /\ UiInit

SpecSettlePage == InitSettlePage /\ [][SettlePageNext]_vars

(***************************************************************************)
(* The Totals view: the effect that fetches the totals.                    *)
(***************************************************************************)
SetTotalsView(v) ==
    /\ totalsView' = v
    /\ UNCHANGED <<flow, settlePage, splitVars, ledgerVars, txVars, settleVars>>

\* the effect runs: the cleanup of the previous run, then fetchTotals starts a
\* request
RunEffect(v) ==
    [v EXCEPT !.started = @ + 1,
              !.requests = Cleanup(@) \cup {TotalsRequest(v.started + 1)},
              !.isLoading = TRUE]

\* the totals step is entered: the component mounts with its initial state
TotalsMount ==
    /\ ~totalsView.mounted
    /\ totalsView.started < MaxTotalsRequests
    /\ SetTotalsView(RunEffect([totalsView EXCEPT !.mounted = TRUE, !.shown = 0,
                                                  !.isLoading = FALSE]))

\* participants, assignments, items, receiptImageId or apiBase change
TotalsDepsChange ==
    /\ totalsView.mounted
    /\ totalsView.started < MaxTotalsRequests
    /\ SetTotalsView(RunEffect(totalsView))

\* calculateSplit returns or throws: nothing is set unless isActive
TotalsResponse(req, ok) ==
    /\ req \in totalsView.requests
    /\ LET v == [totalsView EXCEPT !.requests = @ \ {req}]
       IN SetTotalsView(IF isActive(req)
                        THEN [v EXCEPT !.shown = IF ok THEN req.id ELSE @,
                                       !.isLoading = FALSE]
                        ELSE v)

\* the component unmounts: the cleanup runs
TotalsUnmount ==
    /\ totalsView.mounted
    /\ SetTotalsView([totalsView EXCEPT !.mounted = FALSE, !.requests = Cleanup(@)])

TotalsNext ==
    \/ TotalsMount
    \/ TotalsDepsChange
    \/ \E req \in totalsView.requests, ok \in BOOLEAN : TotalsResponse(req, ok)
    \/ TotalsUnmount

InitTotals == SplitIdle /\ LedgerInit /\ TxInit /\ SettleInit /\ UiInit

SpecTotals == InitTotals /\ [][TotalsNext]_vars

(***************************************************************************)
(* Properties of the split engine.                                         *)
(***************************************************************************)
\* the item has at least one assignee that is present in participants
HasValidAssignee(asg, itemId) ==
    \E k \in DOMAIN Selected(asg, itemId) : Selected(asg, itemId)[k] \in participantIds

\* what the detail entries of one participant record for one item
DetailShare(res, k, itemId) ==
    LET es == res.per_person[k].items
    IN SeqSum([j \in DOMAIN es |-> IF es[j].item_id = itemId THEN es[j].amount_cents ELSE 0])

NoDuplicates(s) == \A j, k \in DOMAIN s : s[j] = s[k] => j = k

\* C1: the per-person totals of a returned result sum to assigned_total_cents,
\* and assigned_total_cents is the sum of the prices of exactly the items that
\* have at least one assignee present in participants.
C1_Exactness ==
    pc = "done" =>
        /\ SeqSum([k \in DOMAIN result.per_person |-> result.per_person[k].total_cents])
              = result.assigned_total_cents
        /\ result.assigned_total_cents
              = SeqSum([k \in DOMAIN items |->
                          IF HasValidAssignee(assignments, items[k].id)
                          THEN items[k].price_cents ELSE 0])

C1_Witness ==
    /\ pc = "done"
    /\ Len(items) = 2
    /\ result.assigned_total_cents = 100
    /\ result.unassigned_item_ids = <<"i2">>
    /\ items[2].price_cents > 0
    /\ "i1" \in DOMAIN assignments
    /\ UnknownId \in Range(assignments["i1"])
    /\ Cardinality(Range(assignments["i1"]) \cap participantIds) = 2

\* C3: for every item with at least one valid assignee the shares recorded for
\* the participants are each >= 0 and sum to exactly the item's price.
C3_ItemSharesSumToPrice ==
    pc = "done" =>
        \A k \in DOMAIN items :
            HasValidAssignee(assignments, items[k].id) =>
                /\ SeqSum([p \in DOMAIN result.per_person |->
                              DetailShare(result, p, items[k].id)])
                      = items[k].price_cents
                /\ \A p \in DOMAIN result.per_person :
                      \A j \in DOMAIN result.per_person[p].items :
                          result.per_person[p].items[j].amount_cents >= 0

C3_Witness ==
    /\ pc = "done"
    /\ Len(items) = 2
    /\ items[1].price_cents = 2
    /\ items[2].price_cents = 1
    /\ \A k \in 1..2 : HasValidAssignee(assignments, items[k].id)
    /\ DetailShare(result, 1, "i1") = 1
    /\ DetailShare(result, 2, "i1") = 1
    /\ DetailShare(result, 2, "i2") = 1

\* the 100 / 3 example: one item of price 100 shared by all three participants
IsHundredByThree ==
    /\ Len(items) = 1
    /\ items[1].price_cents = 100
    /\ DOMAIN assignments = {"i1"}
    /\ assignments["i1"] = participants

\* floor(price / m) stated by its defining inequality
IsFloor(b, price, m) == b * m <= price /\ price < (b + 1) * m

\* C5: per item every assigned participant first receives base =
\* floor(price / m); then each of the price - base * m remainder cents goes to
\* the assigned participant whose running total is lowest at that moment, a
\* tie going to the participant earliest in the participants list; one item of
\* price 100 shared by three participants with totals 0 gives 34, 33, 33.
C5_RemainderToLowestTotal ==
    /\ [][/\ pc = "rem" =>
               \E r \in Range(selectedValid) :
                  /\ totals' = [totals EXCEPT ![r] = @ + 1]
                  /\ \A q \in Range(selectedValid) :
                        \/ totals[r] < totals[q]
                        \/ totals[r] = totals[q]
                           /\ participantIndex[r] <= participantIndex[q]
          /\ (pc = "rem" /\ pc' = "loop") =>
               \E b \in 0..CurItem.price_cents :
                  /\ IsFloor(b, CurItem.price_cents, Len(selectedValid))
                  /\ remI' = CurItem.price_cents - b * Len(selectedValid)
          /\ (pc = "loop" /\ itemPos <= Len(items) /\ pc' = "loop"
                /\ HasValidAssignee(assignments, CurItem.id)) =>
               \E b \in 0..CurItem.price_cents :
                  /\ IsFloor(b, CurItem.price_cents, Len(selectedValid'))
                  /\ CurItem.price_cents - b * Len(selectedValid') = 0
          /\ (pc = "loop" /\ itemPos <= Len(items)
                /\ HasValidAssignee(assignments, CurItem.id)
                /\ NoDuplicates(Selected(assignments, CurItem.id))) =>
               \E b \in 0..CurItem.price_cents :
                  /\ IsFloor(b, CurItem.price_cents, Len(selectedValid'))
                  /\ \A p \in participantIds :
                        totals'[p] = totals[p] +
                            (IF p \in Range(Selected(assignments, CurItem.id))
                             THEN b ELSE 0)
         ]_vars
    /\ [](pc = "done" /\ IsHundredByThree =>
            /\ result.per_person[1].total_cents = 34
            /\ result.per_person[2].total_cents = 33
            /\ result.per_person[3].total_cents = 33)

\* a remainder cent has gone to the second participant although the first one
\* shares the item, because the first one's total was higher
C5_Witness ==
    /\ pc = "done"
    /\ Len(items) = 2
    /\ items[1].price_cents = 1
    /\ items[2].price_cents = 1
    /\ DOMAIN assignments = {"i1", "i2"}
    /\ assignments["i1"] = <<"p1">>
    /\ assignments["i2"] = <<"p1", "p2">>
    /\ totals["p1"] = 1
    /\ totals["p2"] = 1

\* an assignment array with every id kept at its first occurrence only
RECURSIVE Dedup(_)
Dedup(s) ==
    IF s = <<>> THEN <<>>
    ELSE LET front == Dedup(SubSeq(s, 1, Len(s) - 1))
         IN IF s[Len(s)] \in Range(front) THEN front ELSE Append(front, s[Len(s)])

DedupMap(asg) == [id \in DOMAIN asg |-> Dedup(asg[id])]

\* C6: a participant id that occurs more than once in an item's assignment
\* array gives the same result as if it occurred once.
C6_DuplicatesCountOnce ==
    pc = "done" => result = computePennyPerfectSplit(items, DedupMap(assignments))

NoAssignee(asg, itemId) == Selected(asg, itemId) = <<>>

\* C13: an item whose assignee set is empty (or missing from the assignment
\* map) is appended to unassigned_item_ids and adds nothing to
\* assigned_total_cents, to any participant's total or to any detail list;
\* the returned receipt_total_cents is the sum of the prices of all items,
\* that item's included.
C13_UnassignedPassthrough ==
    /\ [][(pc = "loop" /\ itemPos <= Len(items) /\ NoAssignee(assignments, CurItem.id)) =>
              /\ unassigned_item_ids' = Append(unassigned_item_ids, CurItem.id)
              /\ assigned_total_cents' = assigned_total_cents
              /\ totals' = totals
              /\ details' = details]_vars
    /\ [](pc = "done" =>
            /\ result.receipt_total_cents =
                  SumOver([k \in DOMAIN items |-> items[k].price_cents], DOMAIN items)
            /\ \A k \in DOMAIN items :
                  NoAssignee(assignments, items[k].id) =>
                      /\ items[k].id \in Range(result.unassigned_item_ids)
                      /\ \A p \in DOMAIN result.per_person :
                            DetailShare(result, p, items[k].id) = 0)

\* a returned result with an assigned first item and a second item of price
\* 100 that has an empty assignee set
C13_Witness ==
    /\ pc = "done"
    /\ Len(items) = 2
    /\ items[1].price_cents = 2
    /\ items[2].price_cents = 100
    /\ DOMAIN assignments = {"i1", "i2"}
    /\ assignments["i1"] = <<"p2", "p3">>
    /\ assignments["i2"] = <<>>
    /\ result.unassigned_item_ids = <<"i2">>
    /\ result.receipt_total_cents = 102
    /\ result.assigned_total_cents = 2

\* the assignment map with the ids that are not in participants taken out
KnownOnly(asg) ==
    [id \in DOMAIN asg |-> SelectSeq(asg[id], LAMBDA pid : pid \in participantIds)]

\* the item's assignment array is not empty and names unknown ids only
OnlyUnknownAssignees(asg, itemId) ==
    /\ Selected(asg, itemId) # <<>>
    /\ Range(Selected(asg, itemId)) \cap participantIds = {}

\* C14: computePennyPerfectSplit does not fail on an assignment that names
\* unknown participants: every id it reads the totals and details maps at is a
\* key of them, the result is the one for the assignment without the unknown
\* ids (an unknown id gets no share and does not count in m), and an item all
\* of whose assignees are unknown is in unassigned_item_ids.
C14_UnknownIdsIgnored ==
    /\ pc \in {"loop", "rem", "done"}
    /\ Range(selectedValid) \subseteq DOMAIN totals \cap DOMAIN details
    /\ pc = "rem" => selectedValid # <<>>
    /\ pc = "done" =>
          /\ result = computePennyPerfectSplit(items, KnownOnly(assignments))
          /\ \A p \in DOMAIN result.per_person :
                result.per_person[p].participant_id \in participantIds
          /\ \A k \in DOMAIN items :
                OnlyUnknownAssignees(assignments, items[k].id) =>
                    /\ items[k].id \in Range(result.unassigned_item_ids)
                    /\ \A p \in DOMAIN result.per_person :
                          DetailShare(result, p, items[k].id) = 0

\* a returned result for an item of price 1 that an unknown id and p2 have
\* (the cent goes to p2) and a second item that only the unknown id has
C14_Witness ==
    /\ pc = "done"
    /\ Len(items) = 2
    /\ items[1].price_cents = 1
    /\ items[2].price_cents = 1
    /\ DOMAIN assignments = {"i1", "i2"}
    /\ assignments["i1"] = <<UnknownId, "p2">>
    /\ assignments["i2"] = <<UnknownId>>
    /\ result.per_person[2].total_cents = 1
    /\ result.assigned_total_cents = 1
    /\ result.unassigned_item_ids = <<"i2">>

\* the positions of the entries for an item in a participant's detail list
EntriesFor(res, p, itemId) ==
    {j \in DOMAIN res.per_person[p].items : res.per_person[p].items[j].item_id = itemId}

\* C19: in the returned result every participant's detail list holds at most
\* one entry per item (base and remainder cents of an item are combined into
\* it), and the amount recorded for a participant and an item is at most the
\* item's price.
C19_OneDetailEntryPerItem ==
    pc = "done" =>
        \A p \in DOMAIN result.per_person : \A k \in DOMAIN items :
            /\ Cardinality(EntriesFor(result, p, items[k].id)) <= 1
            /\ DetailShare(result, p, items[k].id) <= items[k].price_cents

\* the item's assignment array names every participant exactly once
SharedByAll(asg, itemId) ==
    /\ Len(Selected(asg, itemId)) = Len(participants)
    /\ Range(Selected(asg, itemId)) = participantIds

\* C20: under the lowest-running-total remainder policy, when every item of
\* the receipt is assigned to all participants, any two participants'
\* total_cents of the returned result differ by at most 1 cent, for any number
\* of items and any prices.
C20_TotalsWithinOneCent ==
    (pc = "done" /\ \A k \in DOMAIN items : SharedByAll(assignments, items[k].id)) =>
        \A p, q \in DOMAIN result.per_person :
            result.per_person[p].total_cents - result.per_person[q].total_cents <= 1

\* three items of 1, 2 and 4 cents shared by all three participants: the
\* remainder cents went to p1, then p2 and p3, then p1, giving 3, 2, 2
C20_Witness ==
    /\ pc = "done"
    /\ Len(items) = 3
    /\ items[1].price_cents = 1
    /\ items[2].price_cents = 2
    /\ items[3].price_cents = 4
    /\ \A k \in DOMAIN items : SharedByAll(assignments, items[k].id)
    /\ assignments[items[2].id] = Reverse(participants)
    /\ result.per_person[1].total_cents = 3
    /\ result.per_person[2].total_cents = 2
    /\ result.per_person[3].total_cents = 2

\* number of entries of the array s equal to x
CountOf(s, x) == Cardinality({k \in DOMAIN s : s[k] = x})

\* the valid entries of the item's array that come before those of pid when
\* the entries are taken in participants-list order
EntriesBefore(asg, itemId, pid) ==
    Cardinality({k \in DOMAIN Selected(asg, itemId) :
                    /\ Selected(asg, itemId)[k] \in participantIds
                    /\ participantIndex[Selected(asg, itemId)[k]] < participantIndex[pid]})

\* the number of valid entries of the item's array
ValidEntries(asg, itemId) ==
    Cardinality({k \in DOMAIN Selected(asg, itemId) :
                    Selected(asg, itemId)[k] \in participantIds})

\* what the rule 'the first (price mod m) assignees in list order get
\* floor + 1, the others floor' gives pid for one item with m >= 1
StableShare(item, asg, pid) ==
    LET m == ValidEntries(asg, item.id)
        b == CHOOSE q \in 0..item.price_cents : IsFloor(q, item.price_cents, m)
        r == item.price_cents % m
        first == EntriesBefore(asg, item.id, pid)
        mine == CountOf(Selected(asg, item.id), pid)
        extra == IF r <= first THEN 0
                 ELSE IF r - first >= mine THEN mine ELSE r - first
    IN b * mine + extra

\* C21: under the stable-order policy an item with m >= 1 valid assignees,
\* taken in participants-list order, adds floor(price / m) + 1 cents to each of
\* the first (price mod m) assignees and floor(price / m) to the others,
\* whatever the totals accumulated from the other items are; the returned
\* totals are the sums of these shares.
C21_StableOrderShares ==
    /\ [][(pc = "loop" /\ itemPos <= Len(items)
             /\ HasValidAssignee(assignments, CurItem.id))
          => \A pid \in participantIds :
                totals'[pid] = totals[pid] + StableShare(CurItem, assignments, pid)]_vars
    /\ [](pc = "done" =>
            \A k \in DOMAIN participants :
                result.per_person[k].total_cents =
                    SumOver([j \in DOMAIN items |->
                                IF HasValidAssignee(assignments, items[j].id)
                                THEN StableShare(items[j], assignments, participants[k])
                                ELSE 0], DOMAIN items))

\* the second item's only cent goes to p1 although p1 holds the first item's
\* cent and p2 holds nothing
C21_Witness ==
    /\ pc = "done"
    /\ Len(items) = 2
    /\ items[1].price_cents = 1 /\ items[2].price_cents = 1
    /\ assignments = [i1 |-> <<"p1">>, i2 |-> <<"p2", "p1">>]
    /\ result.per_person[1].total_cents = 2
    /\ result.per_person[2].total_cents = 0

\* the valid entries of the item's array name every id once
DistinctAssignees(asg, itemId) ==
    \A pid \in participantIds : CountOf(Selected(asg, itemId), pid) <= 1

\* what the stable-order version gives participants[k] for the item alone
StableItemShare(item, asg, k) ==
    computePennyPerfectSplitStableOrder(<<item>>, asg).per_person[k].total_cents

\* the claim as stated: with m >= 1 distinct valid assignees every assignee's
\* share of the item is floor(price / m) or floor(price / m) + 1 under either
\* policy
C24_ShareFloorOrOneMore ==
    pc = "done" =>
        \A j \in DOMAIN items :
            (HasValidAssignee(assignments, items[j].id)
                /\ DistinctAssignees(assignments, items[j].id)) =>
            LET m == ValidEntries(assignments, items[j].id)
                b == CHOOSE q \in 0..items[j].price_cents :
                        IsFloor(q, items[j].price_cents, m)
            IN \A k \in DOMAIN participants :
                  participants[k] \in Range(Selected(assignments, items[j].id)) =>
                      /\ DetailShare(result, k, items[j].id) \in {b, b + 1}
                      /\ StableItemShare(items[j], assignments, k) \in {b, b + 1}

\* C24 (amended): for every item with m >= 1 valid assignee entries each entry
\* is given floor(price / m); under the stable-order policy no entry gets more
\* than one of the price mod m remainder cents, so a participant listed once
\* gets floor or floor + 1; under the lowest-running-total policy a participant
\* can get several remainder cents of the same item, and its share lies
\* between floor and floor + (price mod m) per the entries it holds; a
\* participant without an entry gets nothing of the item.
C24_ShareBounds ==
    pc = "done" =>
        \A j \in DOMAIN items :
            HasValidAssignee(assignments, items[j].id) =>
            LET m == ValidEntries(assignments, items[j].id)
                b == CHOOSE q \in 0..items[j].price_cents :
                        IsFloor(q, items[j].price_cents, m)
                r == items[j].price_cents % m
            IN \A k \in DOMAIN participants :
                  LET c == CountOf(Selected(assignments, items[j].id), participants[k])
                      low == DetailShare(result, k, items[j].id)
                      stable == StableItemShare(items[j], assignments, k)
                  IN /\ c = 0 => low = 0 /\ stable = 0
                     /\ b * c <= low /\ low <= b * c + r
                     /\ b * c <= stable
                     /\ stable <= b * c + (IF c < r THEN c ELSE r)

\* p1 is given both remainder cents of the second item, whose three assignees
\* each have a base of 0, because p2 and p3 hold a cent of the first item
C24_Witness ==
    /\ pc = "done"
    /\ items[1].price_cents = 2 /\ items[2].price_cents = 2
    /\ assignments = [i1 |-> <<"p2", "p3">>, i2 |-> <<"p1", "p2", "p3">>]
    /\ DetailShare(result, 1, "i2") = 2
    /\ StableItemShare(items[2], assignments, 1) = 1

\* the map asg with the entries j and j + 1 of the array of itemId exchanged
SwapAdjacent(asg, itemId, j) ==
    [asg EXCEPT ![itemId] = [@ EXCEPT ![j] = asg[itemId][j + 1],
                                      ![j + 1] = asg[itemId][j]]]

\* C28: the result does not depend on the order of the ids inside an
\* assignment array: exchanging two neighbouring ids of any array (and so, by
\* repetition, any permutation of any array) leaves the whole result unchanged.
C28_OrderInsideArrayIrrelevant ==
    pc = "done" =>
        \A itemId \in DOMAIN assignments :
            \A j \in 1..(Len(assignments[itemId]) - 1) :
                computePennyPerfectSplit(items, SwapAdjacent(assignments, itemId, j)) = result

\* an array that is not in list order, with an unknown id between two
\* participants, and the cent went to the participant who is first in the list
C28_Witness ==
    /\ pc = "done"
    /\ Len(items) = 1
    /\ items[1].price_cents = 1
    /\ assignments = [i1 |-> <<"p3", UnknownId, "p1">>]
    /\ result.per_person[1].total_cents = 1
    /\ result.per_person[3].total_cents = 0

\* C29: for a receipt with a single item whose assignment array names no
\* participant twice, the stable-order version and the lowest-running-total
\* versions return the same total_cents for every participant.
C29_PoliciesAgreeOnSingleItem ==
    (pc = "done" /\ Len(items) = 1 /\ DistinctAssignees(assignments, items[1].id)) =>
        LET stable == computePennyPerfectSplitStableOrder(items, assignments)
            lowest == computePennyPerfectSplitLowestTotal(items, assignments)
        IN \A k \in DOMAIN participants :
              /\ stable.per_person[k].total_cents = lowest.per_person[k].total_cents
              /\ stable.per_person[k].total_cents = result.per_person[k].total_cents

\* 100 cents shared by the three participants: 34, 33, 33 under both policies
C29_Witness ==
    /\ pc = "done"
    /\ Len(items) = 1
    /\ items[1].price_cents = 100
    /\ assignments = [i1 |-> <<"p1", "p2", "p3">>]
    /\ result.per_person[1].total_cents = 34
    /\ result.per_person[3].total_cents = 33
    /\ computePennyPerfectSplitStableOrder(items, assignments).per_person[1].total_cents = 34

\* C30: in the detailed result every participant's total_cents is the sum of
\* amount_cents over that participant's detail entries, every entry records a
\* positive amount, and a participant who got nothing (no valid entry in any
\* array, or only shares of 0 cents) has total_cents 0 and an empty list.
C30_TotalIsSumOfDetails ==
    pc = "done" =>
        \A k \in DOMAIN participants :
            LET es == result.per_person[k].items
            IN /\ result.per_person[k].total_cents =
                      SeqSum([j \in DOMAIN es |-> es[j].amount_cents])
               /\ \A j \in DOMAIN es : es[j].amount_cents > 0
               /\ result.per_person[k].total_cents = 0 => es = <<>>
               /\ (\A j \in DOMAIN items :
                      participants[k] \notin Range(Selected(assignments, items[j].id)))
                  => result.per_person[k].total_cents = 0 /\ es = <<>>

\* one cent shared by p1 and p2: p1 holds it as one entry, p2 is assigned but
\* got 0 cents and has an empty list, like p3 who is not assigned
C30_Witness ==
    /\ pc = "done"
    /\ Len(items) = 1
    /\ items[1].price_cents = 1
    /\ assignments = [i1 |-> <<"p1", "p2">>]
    /\ result.per_person[1].total_cents = 1
    /\ result.per_person[1].items = <<[item_id |-> "i1", amount_cents |-> 1]>>
    /\ result.per_person[2].items = <<>>
    /\ result.per_person[3].items = <<>>

(***************************************************************************)
(* Properties of the ledger.                                               *)
(***************************************************************************)
RECURSIVE AmountSum(_)
\* the sum of amount_cents over a set of allocation rows
AmountSum(rows) ==
    IF rows = {} THEN 0
    ELSE LET r == CHOOSE x \in rows : TRUE IN r.amount_cents + AmountSum(rows \ {r})

\* C2: each participant's running_total_cents equals the sum of amount_cents
\* over that participant's current allocation rows, after any sequence of
\* inserts, updates, deletes and cascaded deletes.
C2_RunningTotalIsSumOfRows ==
    \A pid \in DOMAIN running_total_cents :
        running_total_cents[pid] = AmountSum(RowsOfParticipant(CurDB, pid))

\* an accepted UPDATE has left one participant with two rows and the other with none
C2_Witness ==
    /\ lastOp.op = "update"
    /\ lastOp.ok
    /\ DOMAIN running_total_cents = LedgerParticipants
    /\ Cardinality(participant_item_allocations) = 2
    /\ \E pid \in LedgerParticipants :
          /\ Cardinality(RowsOfParticipant(CurDB, pid)) = 2
          /\ running_total_cents[pid] = 2

\* C4: a replace_allocations call whose row set holds an invalid row (amount
\* above the item price, negative amount, missing participant or missing item)
\* at any position is rejected and leaves the allocation rows and every
\* running total as they were.
C4_InvalidReplaceChangesNothing ==
    [][(lastOp'.op = "replace" /\ lastOp'.invalid > 0) =>
          /\ ~lastOp'.ok
          /\ participant_item_allocations' = participant_item_allocations
          /\ running_total_cents' = running_total_cents
          /\ receipt_items' = receipt_items]_vars

\* a replace was rejected for its second row, after the deletes and a valid
\* first insert, and the rows from before the call are still there
C4_Witness ==
    /\ lastOp.op = "replace"
    /\ ~lastOp.ok
    /\ lastOp.invalid = 2
    /\ Cardinality(participant_item_allocations) = 2
    /\ \E pid \in DOMAIN running_total_cents : running_total_cents[pid] > 0

\* C7: for every item the amounts of its allocation rows sum to at most the
\* item's price, whatever allocation sets the data layer has accepted.
C7_ItemSumWithinPrice ==
    \A i \in DOMAIN receipt_items :
        AmountSum(RowsOfItems(CurDB, {i})) <= receipt_items[i].item_price_cents

\* C8: replace_allocations called a second time with the same receipt and the
\* same rows leaves the allocation rows and the running totals as the first
\* call left them.
C8_ReplaceIdempotent ==
    \A r \in LedgerReceipts : \A rows \in LedgerRowSeqs(r) :
        LET first == replace_allocations(CurDB, r, rows)
            second == replace_allocations(first.db, r, rows)
        IN second.db = first.db

\* the state an accepted replace with two rows has left, in which the same
\* call is accepted again
C8_Witness ==
    /\ lastOp.op = "replace"
    /\ lastOp.ok
    /\ \E r \in LedgerReceipts : \E rows \in LedgerRowSeqs(r) :
          /\ Len(rows) = 2
          /\ \A k \in 1..2 : rows[k].amount_cents > 0
          /\ replace_allocations(CurDB, r, rows).ok
          /\ replace_allocations(CurDB, r, rows).db = CurDB
          /\ Range(rows) \subseteq participant_item_allocations

\* what an UPDATE of the row old to the row new adds to the total of pid
UpdateDelta(old, new, pid) ==
    (IF pid = new.participant_id THEN new.amount_cents ELSE 0)
        - (IF pid = old.participant_id THEN old.amount_cents ELSE 0)

\* C11: an accepted UPDATE of one allocation row from amount a to amount b
\* changes the participant's running_total_cents by exactly b - a when the
\* participant stays the same (500 with an update 200 -> 350 gives 650); when
\* the row moves from participant P to participant Q, P's total goes down by a
\* and Q's goes up by b; no other participant's total changes.
C11_UpdateAppliesDelta ==
    /\ [][(lastOp'.op = "update" /\ lastOp'.ok) =>
              \E old \in participant_item_allocations, new \in LedgerRows :
                 /\ participant_item_allocations' =
                       (participant_item_allocations \ {old}) \cup {new}
                 /\ DOMAIN running_total_cents' = DOMAIN running_total_cents
                 /\ \A pid \in DOMAIN running_total_cents :
                       running_total_cents'[pid] =
                           running_total_cents[pid] + UpdateDelta(old, new, pid)]_vars
    /\ [](apply_allocation_delta_to_running_total(
              "UPDATE", Row("p1", "a1", 200), Row("p1", "a1", 350),
              [pid \in LedgerParticipants |-> 500])
           = [pid \in LedgerParticipants |-> IF pid = "p1" THEN 650 ELSE 500])

\* an accepted UPDATE has left p1, who had a row, with no row and a total of 0,
\* and p2 with the rows of both items and a total of 2 * MaxCents
C11_Witness ==
    /\ lastOp.op = "update"
    /\ lastOp.ok
    /\ DOMAIN running_total_cents = LedgerParticipants
    /\ RowsOfParticipant(CurDB, "p1") = {}
    /\ running_total_cents["p1"] = 0
    /\ Cardinality(RowsOfParticipant(CurDB, "p2")) = 2
    /\ running_total_cents["p2"] = 2 * MaxCents

\* the row's amount is below 0 or above the price of the existing item it references
OutOfBounds(row) ==
    /\ row.receipt_item_id \in DOMAIN receipt_items
    /\ \/ row.amount_cents < 0
       \/ row.amount_cents > receipt_items[row.receipt_item_id].item_price_cents

\* C15: in every reachable ledger state every allocation row references an
\* existing receipt item and has 0 <= amount_cents <= that item's price; an
\* INSERT of a row, or an UPDATE of any row to a row, that would break this
\* bound is rejected.
C15_AmountWithinItemPrice ==
    /\ \A r \in participant_item_allocations :
          /\ r.receipt_item_id \in DOMAIN receipt_items
          /\ ~OutOfBounds(r)
    /\ \A row \in LedgerRows :
          OutOfBounds(row) =>
              /\ ~InsertRow(CurDB, row).ok
              /\ \A old \in participant_item_allocations : ~UpdateRow(CurDB, old, row).ok

\* an UPDATE has been rejected while one item has a price of 0 and a row of 0,
\* and the other item a row at its price
C15_Witness ==
    /\ lastOp.op = "update"
    /\ ~lastOp.ok
    /\ DOMAIN receipt_items = LedgerItems
    /\ receipt_items["a1"].item_price_cents = 0
    /\ receipt_items["b1"].item_price_cents = MaxCents
    /\ participant_item_allocations = {Row("p1", "a1", 0), Row("p1", "b1", MaxCents)}
    /\ OutOfBounds(Row("p1", "a1", 1))
    /\ ~UpdateRow(CurDB, Row("p1", "a1", 0), Row("p1", "a1", 1)).ok

\* C18: a participant that at least one allocation row references is never
\* deleted: no statement removes it from participants, and the rows that
\* reference it stay.
C18_ReferencedParticipantStays ==
    [][\A pid \in DOMAIN running_total_cents :
          RowsOfParticipant(CurDB, pid) # {} =>
              /\ pid \in DOMAIN running_total_cents'
              /\ (lastOp'.op = "delete_participant" =>
                    participant_item_allocations' = participant_item_allocations)]_vars

(***************************************************************************)
(* Properties of settlements.                                              *)
(***************************************************************************)
\* C16: record_settlement appends one settlement row for the participant and
\* changes nothing else: the allocation rows, the receipt items and every
\* participant's running_total_cents are the same after the call as before
\* it; a rejected call appends nothing.
C16_SettlementTouchesNothingElse ==
    [][lastOp'.op \in {"record_settlement", "settle_in_full"} =>
          /\ participant_item_allocations' = participant_item_allocations
          /\ running_total_cents' = running_total_cents
          /\ receipt_items' = receipt_items
          /\ IF lastOp'.ok
             THEN \E pid \in DOMAIN running_total_cents, amount \in 0..(2 * MaxCents) :
                     participant_settlements' =
                         participant_settlements (+) SetToBag({SettlementRow(pid, amount)})
             ELSE participant_settlements' = participant_settlements]_vars

\* a second settlement has been recorded for p1, who has an allocation row and
\* a running total of MaxCents
C16_Witness ==
    /\ lastOp.op = "record_settlement"
    /\ lastOp.ok
    /\ BagCardinality(participant_settlements) = 2
    /\ CopiesIn(SettlementRow("p1", MaxCents), participant_settlements) = 2
    /\ Row("p1", "a1", MaxCents) \in participant_item_allocations
    /\ running_total_cents["p1"] = MaxCents

RECURSIVE PaidBy(_, _)
\* the amounts of the settlement rows of pid added up row by row
PaidBy(settlements, pid) ==
    IF BagToSet(settlements) = {} THEN 0
    ELSE LET r == CHOOSE x \in BagToSet(settlements) : TRUE
         IN (IF r.participant_id = pid THEN r.amount_cents ELSE 0)
                + PaidBy(settlements (-) SetToBag({r}), pid)

\* the settlement rows of the 1000 / 400 example: 150 and 250 paid by p1
ExampleSettlements == SetToBag({SettlementRow("p1", 150), SettlementRow("p1", 250)})

ExampleTotals == [pid \in LedgerParticipants |-> 1000]

\* C17: get_outstanding(p) always equals p's running_total_cents minus the sum
\* of p's settlement amounts (1000 with settlements summing to 400 gives 600);
\* an accepted settlement equal to the current outstanding balance of p, as
\* "Settle in full" records from a list that is up to date, makes
\* get_outstanding(p) equal 0.
C17_OutstandingDerivation ==
    /\ [](\A pid \in DOMAIN running_total_cents :
            get_outstanding(running_total_cents, participant_settlements, pid)
                = running_total_cents[pid] - PaidBy(participant_settlements, pid))
    /\ [](/\ get_outstanding(ExampleTotals, ExampleSettlements, "p1") = 600
          /\ LET res == record_settlement(ExampleTotals, ExampleSettlements, "p1", 600)
             IN res.ok /\ get_outstanding(res.rt, res.settlements, "p1") = 0)
    /\ [][/\ \A pid \in DOMAIN running_total_cents :
               participant_settlements' =
                   participant_settlements (+) SetToBag({SettlementRow(pid,
                       get_outstanding(running_total_cents, participant_settlements, pid))})
               => get_outstanding(running_total_cents', participant_settlements', pid) = 0
          /\ (/\ lastOp'.op = "settle_in_full"
              /\ lastOp'.ok
              /\ balances = OutstandingBalances(running_total_cents, participant_settlements))
               => \E pid \in DOMAIN balances \ DOMAIN balances' :
                     get_outstanding(running_total_cents', participant_settlements', pid) = 0
         ]_vars

\* p1 owes MaxCents, a settlement of 0 was recorded, and "Settle in full" has
\* then recorded the outstanding MaxCents: nothing is outstanding for p1
C17_Witness ==
    /\ lastOp.op = "settle_in_full"
    /\ lastOp.ok
    /\ "p1" \in DOMAIN running_total_cents
    /\ running_total_cents["p1"] = MaxCents
    /\ participant_settlements =
          SetToBag({SettlementRow("p1", 0), SettlementRow("p1", MaxCents)})
    /\ "p1" \notin DOMAIN balances
    /\ get_outstanding(running_total_cents, participant_settlements, "p1") = 0

(***************************************************************************)
(* Properties of concurrent replace_allocations transactions.              *)
(***************************************************************************)
\* the rows of a call as a set
CallRows(t) == Range(tx[t].rows)

\* both connections have committed calls that ran at the same time, for two
\* different receipts, and both calls allocate to pid
BothCommittedFor(pid) ==
    /\ \A t \in Txs : tx[t].pc = "committed" /\ tx[t].overlap
    /\ tx["t1"].receipt # tx["t2"].receipt
    /\ \A t \in Txs : \E r \in CallRows(t) : r.participant_id = pid

\* C9: when two replace_allocations transactions for different receipts that
\* both allocate to the same participant run concurrently and both commit,
\* the participant's running_total_cents reflects both: it is the sum of the
\* participant's allocation rows, which hold the rows of both calls.
C9_NoLostUpdate ==
    \A pid \in DOMAIN running_total_cents :
        BothCommittedFor(pid) =>
            /\ \A t \in Txs :
                  {r \in CallRows(t) : r.participant_id = pid}
                      \subseteq participant_item_allocations
            /\ running_total_cents[pid] = AmountSum(RowsOfParticipant(CurDB, pid))
            /\ running_total_cents[pid] =
                  AmountSum({r \in CallRows("t1") \cup CallRows("t2") :
                                r.participant_id = pid})

C9_Witness ==
    /\ BothCommittedFor("p1")
    /\ \A t \in Txs : Len(tx[t].rows) = 2
    /\ running_total_cents["p1"] = 2 * MaxCents

IsNormalizedMap(asg, its, pids) ==
    /\ DOMAIN asg = its
    /\ \A it \in DOMAIN asg :
          /\ Range(asg[it]) \subseteq pids
          /\ \A j, k \in DOMAIN asg[it] : asg[it][j] = asg[it][k] => j = k

\* the step starts a calculateSplit request of the assign step
SubmissionStarts == Len(flow'.requests) > Len(flow.requests)

\* C22: whenever the assign step advances on Next, the map submitted to
\* calculateSplit and the map the totals step works on have exactly one entry
\* per current item, no participant id twice in an entry and only ids of the
\* currently selected participants.
C22_NormalizedMapUsed ==
    /\ [][SubmissionStarts =>
            IsNormalizedMap(flow'.requests[Len(flow'.requests)].assignments,
                            flow.items, flow.selectedParticipantIds)]_vars
    /\ [](flow.step = "totals" =>
            IsNormalizedMap(flow.assignments, flow.items, flow.selectedParticipantIds))

\* the item has a selected participant that is in the current list
HasSelectedParticipant(f, it) ==
    /\ it \in DOMAIN f.assignments
    /\ Range(f.assignments[it]) \cap f.selectedParticipantIds # {}

\* C23: Next on the assign step submits (and so can leave the step) only if
\* every current item has a selected participant of the current participant
\* list; with such an item missing, the press that shows the errors leaves the
\* step at 'assign' and starts no submission.
C23_NextNeedsEveryItemAssigned ==
    /\ [][SubmissionStarts =>
            /\ flow.step = "assign"
            /\ \A it \in flow.items : HasSelectedParticipant(flow, it)]_vars
    /\ [][(flow.step = "assign" /\ ~flow.showErrors /\ flow'.showErrors) =>
            /\ \E it \in flow.items : ~HasSelectedParticipant(flow, it)
            /\ flow'.step = "assign"
            /\ flow'.requests = flow.requests
            /\ flow'.assignments = flow.assignments]_vars

\* the errors are shown for the replaced items, whose only selection is a
\* participant that was removed afterwards
C23_Witness ==
    /\ flow.step = "assign"
    /\ flow.showErrors
    /\ flow.saves = 1
    /\ flow.selectedParticipantIds = {"p2"}
    /\ \A it \in flow.items : it \in DOMAIN flow.assignments /\ flow.assignments[it] = <<"p1">>
    /\ flow.requests = <<>>

\* C25: at most one calculateSplit request started by the Next button of the
\* assign step is in flight at any time.
C25_OneSubmissionInFlight == Len(flow.requests) <= 1

(***************************************************************************)
(* Properties of the Running balances page.                                *)
(***************************************************************************)
\* C26: no participant has more than one 'Settle in full' request in flight,
\* whatever settle requests of other participants start or finish meanwhile.
C26_OneSettleInFlightPerParticipant ==
    \A pid \in LedgerParticipants : SettleRequestsOf(pid) <= 1

(***************************************************************************)
(* Properties of the Totals view.                                          *)
(***************************************************************************)
\* the ids of the requests in flight
InFlightIds(v) == {req.id : req \in v.requests}

\* C27: the displayed totals change only with the response to the most
\* recently started request of the mounted view; the response to an earlier
\* request, or one that arrives after the unmount, changes neither the
\* displayed totals nor the loading flag, in whatever order responses arrive.
C27_OnlyLatestResponseShown ==
    /\ [][(totalsView.mounted /\ totalsView'.shown # totalsView.shown) =>
            /\ totalsView'.shown = totalsView.started
            /\ totalsView.started \in InFlightIds(totalsView)
            /\ totalsView.started \notin InFlightIds(totalsView')]_vars
    /\ [][\A id \in InFlightIds(totalsView) \ InFlightIds(totalsView') :
            (id # totalsView.started \/ ~totalsView.mounted) =>
                /\ totalsView'.shown = totalsView.shown
                /\ totalsView'.isLoading = totalsView.isLoading]_vars
    /\ [](totalsView.mounted /\ totalsView.shown # 0 /\ ~totalsView.isLoading
            /\ totalsView.requests # {}
          => \A req \in totalsView.requests : ~req.isActive)

\* the third request's totals are displayed while the two earlier requests are
\* still in flight
C27_Witness ==
    /\ totalsView.mounted
    /\ totalsView.started = 3
    /\ totalsView.shown = 3
    /\ InFlightIds(totalsView) = {1, 2}

====
